---------------------------- MODULE Spec2Model ----------------------------
(***************************************************************************)
(* A model of the blockrouter packet pipeline core:                        *)
(*   - cursor.rs  : Multibytes, Cursor, MultibytesView                     *)
(*   - parser.rs  : the streaming varint decoder                           *)
(*   - framer.rs  : Framer / FrameIter::next                               *)
(*   - mempool.rs : GlobalMemPool, Part                                    *)
(* Each subsystem has its own variables, actions and specification; the    *)
(* actions of one subsystem leave the variables of the others unchanged.   *)
(***************************************************************************)
EXTENDS Integers, Sequences, FiniteSets, TLC

(***************************************************************************)
(* Bounds of the model.                                                    *)
(***************************************************************************)
\* buffers appended to the Multibytes of the cursor subsystem
MaxPages == 3
\* length of one appended buffer (0 = an empty buffer)
MaxPageLen == 2
\* largest amount of one Cursor::advance call
MaxAdv == 3
\* how far beyond the last byte the cursor's logical position may run
MaxOver == 2
\* number of bytes pushed into the framer
MaxStream == 5
\* number of pages the memory pool maps
MaxMapped == 1
\* number of Parts alive at once on one slab (the first and its clones)
MaxParts == 2
\* number of bytes of the payload of a deflate / inflate round trip
MaxPayload == 4
\* largest size of the output buffers of the zlib driver
MaxSlab == 4
\* frames opened on a FramedRing
MaxFrames == 3
\* the FramedRing's head
MaxHead == 4
\* largest ring_size_2 of the rings append_to_ring is applied to on its own
MaxSize2 == 2
\* largest page_entries and buf_size of the pools whose pages are sliced, and
\* the pages one pool maps
MaxEntries == 4
MaxBufSize == 2
MaxSliced == 3

VARIABLES
    \* ---- cursor subsystem (cursor.rs)
    mb,        \* Multibytes.b : sequence of buffers, a buffer is a sequence of bytes
    cur,       \* a Cursor {of, i} on mb
    cret,      \* return value of the last Cursor::advance ("none" before any)
    cop,       \* the last operation performed on mb / cur
    cpos,      \* ghost: sum of the amounts cur was advanced by since the origin
    nbytes,    \* ghost: number of bytes appended so far (bytes are numbered 1, 2, ...)
    napp,      \* ghost: number of buffers appended so far
    lsplit,    \* the Multibytes returned by the last split_to
    pre,       \* ghost: mb as it was just before the last split_to
    splitCur,  \* ghost: the cursor the last split_to was called with
    splitAt,   \* ghost: the logical position of that cursor (bytes before it)
    view,      \* a MultibytesView's cursor on mb, or NoView
    vread,     \* ghost: the bytes read through the view with get_u8
    vpanic,    \* TRUE once a view read indexed an empty chunk (panic)
    iov,       \* the dst of the last bytes_vectored and what it returned
    \* ---- framer subsystem (framer.rs, parser.rs)
    ring,      \* Framer.ring : the accumulation Multibytes
    fstate,    \* Framer.state : FramerState, with its two cursors
    frames,    \* the Frames returned so far by FrameIter::next, in order, as observed
    fres,      \* the result of the last FrameIter::next since the last push
    pushed,    \* ghost: every byte pushed so far, in order
    fcall,     \* ghost: the framer as it was when the last next() was entered
    ferr,      \* ghost: whether next() has returned DecodeError, and the frames emitted until then
    \* ---- memory pool (mempool.rs)
    memory,    \* GlobalMemPool.memory : the global queue of free slabs
    allocs,    \* GlobalMemPool.allocs : the in-flight page allocations counter
    tl,        \* per thread: LUT.lut[gidx], the thread-local cache if installed
    pc,        \* per thread: its position inside allocate / allocate_global
    first,     \* per thread: first_slice of the page it mapped (0 = none)
    itr,       \* per thread: the loop variable of the slab-pushing loop
    mapped,    \* number of pages mapped so far
    strong,    \* per slab: strong count of the Rc<SliceRef> wrapping it
    live,      \* ghost, per slab: number of Parts alive that refer to it
    owner,     \* ghost, per slab: the thread holding its Parts (Rc is !Send)
    shared,    \* ghost, per slab: its Part was cloned since it was handed out
    pev,       \* ghost: the allocation or Part drop just performed, else NoEvent
    concurrent_allocation_limit, \* GlobalMemPool.settings.concurrent_allocation_limit
    \* ---- multi-buffer zlib driver (compress.rs, zlib.rs)
    zslab,      \* the size of the buffers the allocator hands out
    zpayload,   \* the payload Multibytes, one element per input buffer
    zdeflate,   \* MbZlibOp<Deflate>.z : the state of the deflate stream
    zinflate,   \* MbZlibOp<Inflate>.z : the state of the inflate stream
    compressed, \* the result of deflate.process(payload)
    reinflated, \* the result of inflate.process(compressed)
    zstage,     \* the position in the round trip
    \* ---- packet inflater (inflater.rs)
    pinflater,  \* the PacketInflater: its Option<InflateState>
    pframe,     \* ghost: the Frame the last inflate was called with
    pwas,       \* ghost: the PacketInflater as it was when inflate was entered
    presult,    \* the result of the last inflate, NoResult once it is consumed
    pfed,       \* ghost: the Multibytes the last inflate gave to zlib, if it did
    \* ---- framed ring (buffer.rs)
    framed,     \* the FramedRing: ring, base, head, ring_size_2
    rframes,    \* the RingFrames and RingFrameMuts not yet dropped, oldest first
    rmade,      \* ghost: the number of frames opened so far
    rhalt,      \* "no", or how a drop ended the run: "panic" or "loop"
    rev,        \* ghost: what the last operation on the ring was and gave
    \* ---- the varint parser on its own (parser.rs)
    vargs,      \* the input of the last call of varint, NoVarintCall before any
    vret,       \* what that call returned, and what a framer makes of the input
    \* ---- append_to_ring on its own (buffer.rs)
    grow,       \* the ring and slot of the last append_to_ring and the ring it gave
    \* ---- the page-mapping branch of allocate_global on its own (mempool.rs)
    pg,         \* a pool's settings, its queue of Slices and the position in the branch
    dinflate,   \* compress.rs: the zlib stream of one inflating MbZlibOp
    dcall       \* the process call on it that is under way or has returned

cursorVars == <<mb, cur, cret, cop, cpos, nbytes, napp, lsplit, pre, splitCur, splitAt, view, vread, vpanic, iov>>

framerVars == <<ring, fstate, frames, fres, pushed, fcall, ferr>>

poolVars == <<memory, allocs, tl, pc, first, itr, mapped, strong, live, owner, shared, pev, concurrent_allocation_limit>>

zlibVars == <<zslab, zpayload, zdeflate, zinflate, compressed, reinflated, zstage>>

inflaterVars == <<pinflater, pframe, pwas, presult, pfed>>

ringVars == <<framed, rframes, rmade, rhalt, rev>>

parseVars == <<vargs, vret>>

growVars == <<grow>>

pageVars == <<pg>>

driverVars == <<dinflate, dcall>>

\* what the actions of one subsystem leave unchanged
nonCursorVars == <<framerVars, poolVars, zlibVars, inflaterVars, ringVars, parseVars, growVars, pageVars, driverVars>>

nonFramerVars == <<cursorVars, poolVars, zlibVars, inflaterVars, ringVars, parseVars, growVars, pageVars, driverVars>>

nonPoolVars == <<cursorVars, framerVars, zlibVars, inflaterVars, ringVars, parseVars, growVars, pageVars, driverVars>>

nonZlibVars == <<cursorVars, framerVars, poolVars, inflaterVars, ringVars, parseVars, growVars, pageVars, driverVars>>

nonInflaterVars == <<cursorVars, framerVars, poolVars, zlibVars, ringVars, parseVars, growVars, pageVars, driverVars>>

nonRingVars == <<cursorVars, framerVars, poolVars, zlibVars, inflaterVars, parseVars, growVars, pageVars, driverVars>>

nonParseVars == <<cursorVars, framerVars, poolVars, zlibVars, inflaterVars, ringVars, growVars, pageVars, driverVars>>

nonGrowVars == <<cursorVars, framerVars, poolVars, zlibVars, inflaterVars, ringVars, parseVars, pageVars, driverVars>>

nonPageVars == <<cursorVars, framerVars, poolVars, zlibVars, inflaterVars, ringVars, parseVars, growVars, driverVars>>

nonDriverVars == <<cursorVars, framerVars, poolVars, zlibVars, inflaterVars, ringVars, parseVars, growVars, pageVars>>

vars == <<cursorVars, framerVars, poolVars, zlibVars, inflaterVars, ringVars, parseVars, growVars, pageVars, driverVars>>

(***************************************************************************)
(* Helpers on sequences.                                                   *)
(***************************************************************************)
RECURSIVE Flatten(_)
\* the logical byte stream of a sequence of buffers
Flatten(b) == IF b = <<>> THEN <<>> ELSE Head(b) \o Flatten(Tail(b))

\* the sequence s without its first n elements
DropFirst(s, n) == SubSeq(s, n + 1, Len(s))

\* the first n elements of s
TakeFirst(s, n) == SubSeq(s, 1, n)

Total(b) == Len(Flatten(b))

(***************************************************************************)
(* cursor.rs : Cursor                                                      *)
(***************************************************************************)
NoView == [of |-> -1, i |-> -1]

\* Multibytes::cursor
OriginCursor == [of |-> 0, i |-> 0]

RECURSIVE true_up_keeps_boundary(_, _)
\* true_up with the page test written "i > len": a cursor on a page boundary
\* is left pointing one past the end of the page.
true_up_keeps_boundary(c, b) ==
    IF c.of >= Len(b)
    THEN [c |-> c, ok |-> (c.of = Len(b) /\ c.i = 0)]
    ELSE LET len == Len(b[c.of + 1])
         IN  IF c.i > len
             THEN true_up_keeps_boundary([of |-> c.of + 1, i |-> c.i - len], b)
             ELSE [c |-> c, ok |-> TRUE]

RECURSIVE true_up(_, _)
\* Cursor::true_up : the re-trued cursor and the returned flag
true_up(c, b) ==
    IF c.of >= Len(b)
    THEN [c |-> c, ok |-> (c.of = Len(b) /\ c.i = 0)]
    ELSE LET len == Len(b[c.of + 1])
         IN  IF c.i >= len
             THEN true_up([of |-> c.of + 1, i |-> c.i - len], b)
             ELSE [c |-> c, ok |-> TRUE]

\* Cursor::advance
advance(c, b, n) == true_up([of |-> c.of, i |-> c.i + n], b)

RECURSIVE SumLenFrom(_, _)
\* b.b.iter().skip(of).fold(0, |prev, next| prev + next.remaining())
SumLenFrom(b, of) ==
    IF of >= Len(b) THEN 0 ELSE Len(b[of + 1]) + SumLenFrom(b, of + 1)

\* remaining without the subtraction of the offset into the current page
remaining_ignores_offset(c, b) ==
    LET blen == SumLenFrom(b, c.of)
    IN  IF blen <= c.i THEN 0 ELSE blen

\* Cursor::remaining
remaining(c, b) ==
    LET blen == SumLenFrom(b, c.of)
    IN  IF blen <= c.i THEN 0 ELSE blen - c.i

RECURSIVE has_atleast_loop(_, _, _)
has_atleast_loop(b, of, left) ==
    IF of >= Len(b)
    THEN left = 0
    ELSE LET bl == Len(b[of + 1])
         IN  IF bl >= left THEN TRUE ELSE has_atleast_loop(b, of + 1, left - bl)

\* has_atleast that forgets the cursor's offset into its page
has_atleast_ignores_offset(c, b, len) == has_atleast_loop(b, c.of, len)

\* Cursor::has_atleast
has_atleast(c, b, len) == has_atleast_loop(b, c.of, len + c.i)

\* run_off_end that reports nothing for a cursor on the imaginary buffer
\* after the last one
run_off_end_imaginary_zero(c, b) ==
    IF c.of < Len(b)
    THEN LET len == Len(b[c.of + 1])
         IN  IF c.i > len THEN c.i - len ELSE 0
    ELSE 0

\* Cursor::run_off_end
run_off_end(c, b) ==
    IF c.of < Len(b)
    THEN LET len == Len(b[c.of + 1])
         IN  IF c.i > len THEN c.i - len ELSE 0
    ELSE c.i

(***************************************************************************)
(* cursor.rs : Multibytes                                                  *)
(***************************************************************************)
\* split_to that moves only full_pages (= c.of - 1 when c.i = 0) buffers
split_to_full_pages(b, c) ==
    IF c.i = 0 /\ c.of = 0
    THEN [ret |-> <<>>, rest |-> b, panic |-> FALSE]
    ELSE IF c.of > Len(b)
    THEN [ret |-> <<>>, rest |-> b, panic |-> TRUE]
    ELSE LET full_pages == IF c.i = 0 THEN c.of - 1 ELSE c.of
             moved == TakeFirst(b, full_pages)
             left  == DropFirst(b, full_pages)
         IN  IF c.i > 0
             THEN IF left = <<>> \/ c.i > Len(Head(left))
                  THEN [ret |-> <<>>, rest |-> b, panic |-> TRUE]
                  ELSE [ret   |-> Append(moved, TakeFirst(Head(left), c.i)),
                        rest  |-> <<DropFirst(Head(left), c.i)>> \o Tail(left),
                        panic |-> FALSE]
             ELSE [ret |-> moved, rest |-> left, panic |-> FALSE]

\* Multibytes::split_to : ret is the returned Multibytes, rest what self
\* holds afterwards, panic is TRUE when must_be_some!, the "Cursor steps
\* into a page which does not exist" panic or the buffer's own split_to
\* bound check fires.
split_to(b, c) ==
    IF c.i = 0 /\ c.of = 0
    THEN [ret |-> <<>>, rest |-> b, panic |-> FALSE]
    ELSE IF c.of > Len(b)
    THEN [ret |-> <<>>, rest |-> b, panic |-> TRUE]
    ELSE LET moved == TakeFirst(b, c.of)
             left  == DropFirst(b, c.of)
         IN  IF c.i > 0
             THEN IF left = <<>> \/ c.i > Len(Head(left))
                  THEN [ret |-> <<>>, rest |-> b, panic |-> TRUE]
                  ELSE [ret   |-> Append(moved, TakeFirst(Head(left), c.i)),
                        rest  |-> <<DropFirst(Head(left), c.i)>> \o Tail(left),
                        panic |-> FALSE]
             ELSE [ret |-> moved, rest |-> left, panic |-> FALSE]

\* <MultibytesView as Buf>::bytes
view_bytes(c, b) ==
    IF c.of < Len(b)
    THEN IF c.i <= Len(b[c.of + 1]) THEN DropFirst(b[c.of + 1], c.i) ELSE <<>>
    ELSE <<>>

\* &first.as_ref()[..] : the first buffer not clipped at the cursor
unclipped(s, i) == s

\* &first.as_ref()[self.i..]
clipped(s, i) == DropFirst(s, i)

\* the result of bytes_vectored: the count returned and dst afterwards, or
\* a panic (an index out of bounds)
Vectored(n, dst, panic) == [n |-> n, dst |-> dst, panic |-> panic, called |-> TRUE]

NoVectored == [n |-> 0, dst |-> <<>>, panic |-> FALSE, called |-> FALSE]

RECURSIVE vectored_loop(_, _, _)
\* while let Some(item) = iter.next() { .. } with the buffers items left in
\* iter and i entries of dst filled
vectored_loop(items, dst, i) ==
    IF items = <<>>
    THEN Vectored(i, dst, FALSE)
    ELSE IF Head(items) = <<>>
    THEN vectored_loop(Tail(items), dst, i)
    ELSE IF i >= Len(dst)
    THEN Vectored(i, dst, TRUE)
    ELSE LET filled == [dst EXCEPT ![i + 1] = Head(items)]
         IN  IF i + 1 >= Len(dst)
             THEN Vectored(i + 1, filled, FALSE)
             ELSE vectored_loop(Tail(items), filled, i + 1)

\* Cursor::bytes_vectored(&mb, dst)
bytes_vectored(c, b, dst) ==
    IF Len(dst) < 1
    THEN Vectored(0, dst, FALSE)
    ELSE LET iter == IF c.of < Len(b) THEN DropFirst(b, c.of) ELSE <<>>
         IN  IF iter = <<>>
             THEN Vectored(0, dst, FALSE)
             ELSE IF c.i > Len(Head(iter))
             THEN Vectored(0, dst, TRUE)
             ELSE vectored_loop(Tail(iter),
                                [dst EXCEPT ![1] = clipped(Head(iter), c.i)], 1)

(***************************************************************************)
(* The cursor subsystem as a state machine.                                *)
(***************************************************************************)
\* a panic unwinds the thread: nothing runs after it
CursorHalted == vpanic \/ cop = "split_panic" \/ iov.panic

InitCursorVars ==
    /\ mb = <<>>
    /\ cur = OriginCursor
    /\ cret = "none"
    /\ cop = "new"
    /\ cpos = 0
    /\ nbytes = 0
    /\ napp = 0
    /\ lsplit = <<>>
    /\ pre = <<>>
    /\ splitCur = OriginCursor
    /\ splitAt = 0
    /\ view = NoView
    /\ vread = <<>>
    /\ vpanic = FALSE
    /\ iov = NoVectored

\* the Multibytes returned by a split_to is dropped before the next
\* operation
DropSplit ==
    /\ lsplit' = <<>>
    /\ pre' = <<>>
    /\ splitCur' = OriginCursor
    /\ splitAt' = 0

\* Multibytes::append of a buffer of len bytes (numbered on from nbytes).
\* A view borrows the Multibytes, so none is alive across an append.
MbAppend(len) ==
    /\ ~CursorHalted
    /\ napp < MaxPages
    /\ mb' = Append(mb, [k \in 1..len |-> nbytes + k])
    /\ nbytes' = nbytes + len
    /\ napp' = napp + 1
    /\ cop' = "append"
    /\ view' = NoView
    /\ vread' = <<>>
    /\ DropSplit
    /\ UNCHANGED <<cur, cret, cpos, vpanic>>
    /\ iov' = NoVectored
    /\ UNCHANGED nonCursorVars

\* Cursor::advance(&mb, n) on cur
CurAdvance(n) ==
    /\ ~CursorHalted
    /\ view = NoView
    /\ cpos + n <= Total(mb) + MaxOver
    /\ LET r == advance(cur, mb, n)
       IN  /\ cur' = r.c
           /\ cret' = r.ok
    /\ cpos' = cpos + n
    /\ cop' = "advance"
    /\ DropSplit
    /\ UNCHANGED <<mb, nbytes, napp, view, vread, vpanic>>
    /\ iov' = NoVectored
    /\ UNCHANGED nonCursorVars

\* cursor = mb.cursor()
CurReset ==
    /\ ~CursorHalted
    /\ cur # OriginCursor
    /\ cur' = OriginCursor
    /\ cpos' = 0
    /\ cret' = "none"
    /\ cop' = "cursor"
    /\ DropSplit
    /\ UNCHANGED <<mb, nbytes, napp, view, vread, vpanic>>
    /\ iov' = NoVectored
    /\ UNCHANGED nonCursorVars

\* the precondition of split_to: "a Cursor should be 'trued up'"
TruedUp(c, b) ==
    \/ c.of < Len(b) /\ c.i < Len(b[c.of + 1])
    \/ c.of = Len(b) /\ c.i = 0

\* let l = mb.split_to(&cursor), with a trued-up cursor or the origin
\* cursor; the cursor is taken anew afterwards (cursor = mb.cursor()).
MbSplitTo ==
    /\ ~CursorHalted
    /\ TruedUp(cur, mb) \/ cur = OriginCursor
    /\ LET r == split_to(mb, cur)
       IN  /\ mb' = r.rest
           /\ lsplit' = r.ret
           /\ cop' = IF r.panic THEN "split_panic" ELSE "split_to"
    /\ pre' = mb
    /\ splitCur' = cur
    /\ splitAt' = cpos
    /\ cpos' = 0
    /\ cur' = OriginCursor
    /\ cret' = "none"
    /\ view' = NoView
    /\ vread' = <<>>
    /\ UNCHANGED <<nbytes, napp, vpanic>>
    /\ iov' = NoVectored
    /\ UNCHANGED nonCursorVars

\* mb.view(). The view and the cursor cur are exercised one at a time:
\* their operations only read mb and do not affect each other.
ViewNew ==
    /\ ~CursorHalted
    /\ view = NoView
    /\ cur = OriginCursor
    /\ view' = OriginCursor
    /\ vread' = <<>>
    /\ cop' = "view"
    /\ cret' = "none"
    /\ DropSplit
    /\ UNCHANGED <<mb, cur, cpos, nbytes, napp, vpanic>>
    /\ iov' = NoVectored
    /\ UNCHANGED nonCursorVars

\* Buf::get_u8 on the view: assert!(remaining() >= 1); bytes()[0]; advance(1).
\* Callers (varint_decode) call it only after has_atleast(1).
ViewGetU8 ==
    /\ ~CursorHalted
    /\ view # NoView
    /\ has_atleast(view, mb, 1)
    /\ remaining(view, mb) >= 1
    /\ LET chunk == view_bytes(view, mb)
       IN  IF chunk = <<>>
           THEN /\ vpanic' = TRUE
                /\ UNCHANGED <<view, vread>>
           ELSE /\ vread' = Append(vread, Head(chunk))
                /\ view' = advance(view, mb, 1).c
                /\ vpanic' = FALSE
    /\ UNCHANGED <<mb, cur, cret, cop, cpos, nbytes, napp, lsplit, pre, splitCur, splitAt>>
    /\ iov' = NoVectored
    /\ UNCHANGED nonCursorVars

\* the IoSlices of dst before the call: each is the one byte 0, which no
\* buffer holds
StaleSlices(dstlen) == [k \in 1..dstlen |-> <<0>>]

\* cur.bytes_vectored(&mb, &mut dst) with a dst of dstlen entries
CurBytesVectored(dstlen) ==
    /\ ~CursorHalted
    /\ view = NoView
    /\ iov' = bytes_vectored(cur, mb, StaleSlices(dstlen))
    /\ cop' = "bytes_vectored"
    /\ DropSplit
    /\ UNCHANGED <<mb, cur, cret, cpos, nbytes, napp, view, vread, vpanic>>
    /\ UNCHANGED nonCursorVars

NextCursor ==
    \/ \E dstlen \in 0..(MaxPages + 1) : CurBytesVectored(dstlen)
    \/ \E len \in 0..MaxPageLen : MbAppend(len)
    \/ \E n \in 0..MaxAdv : CurAdvance(n)
    \/ CurReset
    \/ MbSplitTo
    \/ ViewNew
    \/ ViewGetU8

(***************************************************************************)
(* Properties of the cursor subsystem.                                     *)
(***************************************************************************)
\* the largest byte count asked of has_atleast
MaxNeed == MaxPages * MaxPageLen + 1

HasEmptyBuffer(b) == \E k \in 1..Len(b) : b[k] = <<>>

\* C5 - split conservation: after l = m.split_to(c) with a trued-up (or
\* origin) cursor c, l holds exactly the bytes of m strictly before c, m
\* holds exactly the bytes from c on, l ++ m is the original stream, the
\* lengths add up, no panic happens, and a split at the origin cursor
\* returns an empty Multibytes and leaves m as it was.
C5_SplitConservation ==
    /\ cop # "split_panic"
    /\ cop = "split_to" =>
        /\ Flatten(lsplit) = TakeFirst(Flatten(pre), splitAt)
        /\ Flatten(mb) = DropFirst(Flatten(pre), splitAt)
        /\ Flatten(lsplit) \o Flatten(mb) = Flatten(pre)
        /\ Total(lsplit) + Total(mb) = Total(pre)
        /\ (splitCur = OriginCursor => (lsplit = <<>> /\ mb = pre))

\* C5 witness: a split in the middle of a later buffer of a Multibytes that
\* holds an empty buffer, leaving bytes on both sides.
C5_Witness ==
    /\ cop = "split_to"
    /\ splitCur.i > 0
    /\ splitCur.of > 0
    /\ HasEmptyBuffer(pre)
    /\ Total(mb) > 0

\* C6 - cursor round trip: a cursor advanced from the origin by amounts
\* summing to n has remaining() = total - n when n <= total, and 0 when it
\* ran past the end.
C6_CursorRoundTrip ==
    remaining(cur, mb) = IF cpos <= Total(mb) THEN Total(mb) - cpos ELSE 0

\* C6 witness: the cursor was advanced over an empty buffer into the
\* middle of a later one.
C6_Witness ==
    /\ cop = "advance"
    /\ cur.of > 1
    /\ cur.i > 0
    /\ cpos < Total(mb)
    /\ HasEmptyBuffer(TakeFirst(mb, cur.of))

\* C7 - advance returns false iff the logical position is strictly past
\* the end; landing on the end returns true and leaves the end-of-stream
\* cursor; whenever it returns true the cursor is trued-up.
C7_AdvanceResult ==
    cop = "advance" =>
        /\ ((cret = FALSE) <=> (cpos > Total(mb)))
        /\ (cpos = Total(mb) => (cret = TRUE /\ cur = [of |-> Len(mb), i |-> 0]))
        /\ (cret = TRUE => TruedUp(cur, mb))

\* C7 witness: an advance that lands exactly on the end of a Multibytes
\* whose last buffer is empty.
C7_Witness ==
    /\ cop = "advance"
    /\ cret = TRUE
    /\ Len(mb) > 1
    /\ mb[Len(mb)] = <<>>
    /\ cpos = Total(mb)
    /\ cpos > 0

\* C8 as claimed: for every cursor, also one advanced past the end, and
\* every n >= 0, has_atleast(n) iff remaining() >= n.
C8_Original ==
    \A n \in 0..MaxNeed : has_atleast(cur, mb, n) <=> (remaining(cur, mb) >= n)

\* C8 as amended: for a cursor not past the end has_atleast(n) iff
\* remaining() >= n; for a cursor advanced past the end has_atleast(n) is
\* false for every n, n = 0 included (remaining() is 0 there).
C8_HasAtleast ==
    \A n \in 0..MaxNeed :
        IF cpos <= Total(mb)
        THEN has_atleast(cur, mb, n) <=> (remaining(cur, mb) >= n)
        ELSE ~has_atleast(cur, mb, n) /\ remaining(cur, mb) = 0

\* C8 witness: a cursor in the middle of a buffer with bytes both sides,
\* in a Multibytes that has an empty buffer after the cursor.
C8_Witness ==
    /\ cop = "advance"
    /\ cur.i > 0
    /\ cur.of + 1 < Len(mb)
    /\ HasEmptyBuffer(DropFirst(mb, cur.of))
    /\ has_atleast(cur, mb, 2)
    /\ ~has_atleast(cur, mb, 3)

\* C9 as claimed: reading byte by byte through a view yields the stream's
\* bytes in order, and whenever the view has bytes remaining its current
\* chunk is non-empty, so that no read indexes an empty chunk.
C9_ViewSkipsEmpty ==
    view # NoView =>
        /\ ~vpanic
        /\ vread = TakeFirst(Flatten(mb), Len(vread))
        /\ (remaining(view, mb) > 0 => view_bytes(view, mb) # <<>>)

\* a buffer that holds bytes
NonEmptyBuffer(s) == s # <<>>

\* what is left to read from the trued-up cursor c, buffer by buffer: the
\* rest of the buffer c is in, and the later buffers that hold bytes
RemainingSlices(c, b) ==
    <<DropFirst(b[c.of + 1], c.i)>> \o SelectSeq(DropFirst(b, c.of + 1), NonEmptyBuffer)

\* C24: bytes_vectored from a trued-up cursor, with a dst of at least as
\* many entries as there are non-empty buffers left, fills dst in stream
\* order with the rest of the cursor's buffer and then every later
\* non-empty buffer, skips the empty ones, and returns the number of
\* entries filled; with an empty dst or a cursor at or past the end it
\* returns 0 and leaves dst as it was.
C24_BytesVectored ==
    (iov.called /\ true_up(cur, mb).c = cur) =>
        IF iov.dst = <<>> \/ cur.of >= Len(mb)
        THEN /\ ~iov.panic
             /\ iov.n = 0
             /\ iov.dst = StaleSlices(Len(iov.dst))
        ELSE Len(iov.dst) >= Len(RemainingSlices(cur, mb)) =>
                /\ ~iov.panic
                /\ iov.n = Len(RemainingSlices(cur, mb))
                /\ TakeFirst(iov.dst, iov.n) = RemainingSlices(cur, mb)
                /\ DropFirst(iov.dst, iov.n) = StaleSlices(Len(iov.dst) - iov.n)

\* the cursor inside the first of three buffers, the second of which is
\* empty: two entries of a dst of three are filled
C24_Witness ==
    /\ iov.called
    /\ Len(mb) = 3 /\ mb[2] = <<>> /\ Len(mb[1]) = 2 /\ mb[3] # <<>>
    /\ cur = [of |-> 0, i |-> 1]
    /\ Len(iov.dst) = 3
    /\ iov.n = 2
    /\ iov.dst[1] = <<mb[1][2]>> /\ iov.dst[2] = mb[3]

(***************************************************************************)
(* parser.rs : the streaming varint decoder                                *)
(***************************************************************************)
\* the byte values pushed into the framer: the lengths 0 and 2, the
\* continuation byte 0x80, and 0x08 (the length 8, and bit 31 when it is
\* the fifth byte of a varint)
StreamBytes == {0, 2, 128, 8}

RECURSIVE Pow2(_)
Pow2(n) == IF n = 0 THEN 1 ELSE 2 * Pow2(n - 1)

\* bit k of the byte read
Bit(read, k) == (read \div Pow2(k)) % 2

\* the bit values of an accumulator without a sign bit
I32BitValue_no_sign(pos) == IF pos < 31 THEN Pow2(pos) ELSE 0

\* the value of bit pos of an i32: bit 31 is the sign bit, and a shift
\* drops the bits beyond it
I32BitValue(pos) ==
    IF pos < 31 THEN Pow2(pos) ELSE IF pos = 31 THEN (-2147483647) - 1 ELSE 0

\* result |= ((read & 0x7f) as i32) << i, on an i32. The 7-bit group
\* lands on bits i .. i+6, above every bit set so far, so the OR adds the
\* values of the bits of the group.
OrShifted(result, read, i) ==
    result + Bit(read, 0) * I32BitValue(i)     + Bit(read, 1) * I32BitValue(i + 1)
           + Bit(read, 2) * I32BitValue(i + 2) + Bit(read, 3) * I32BitValue(i + 3)
           + Bit(read, 4) * I32BitValue(i + 4) + Bit(read, 5) * I32BitValue(i + 5)
           + Bit(read, 6) * I32BitValue(i + 6)

RECURSIVE varint_decode(_, _, _, _, _)
\* macro varint_decode on a view (cursor c on Multibytes b):
\* kind is "Ok" (with the view's cursor after the varint and the value),
\* "Incomplete", "Error" (VarintExceededShift) or "Panic" (get_u8 indexed
\* an empty chunk).
varint_decode(b, c, max_shift, i, result) ==
    IF ~has_atleast(c, b, 1)
    THEN [kind |-> "Incomplete", c |-> c, value |-> 0]
    ELSE LET chunk == view_bytes(c, b)
         IN  IF chunk = <<>>
             THEN [kind |-> "Panic", c |-> c, value |-> 0]
             ELSE LET read == Head(chunk)
                      c2   == advance(c, b, 1).c
                      r2   == OrShifted(result, read, i)
                  IN  IF read < 128
                      THEN [kind |-> "Ok", c |-> c2, value |-> r2]
                      ELSE IF i + 7 > max_shift
                      THEN [kind |-> "Error", c |-> c2, value |-> 0]
                      ELSE varint_decode(b, c2, max_shift, i + 7, r2)

\* varint that gives up after four continuation bytes
varint_four_bytes(b, c) == varint_decode(b, c, 25, 0, 0)

\* varint that reads a sixth byte
varint_six_bytes(b, c) == varint_decode(b, c, 39, 0, 0)

\* parser::varint
varint(b, c) == varint_decode(b, c, 32, 0, 0)

(***************************************************************************)
(* framer.rs : Framer and FrameIter::next                                  *)
(***************************************************************************)
\* Framer.max_frame_size
max_frame_size == 2

\* FramerState::WaitingForHeader
WaitingForHeader ==
    [tag |-> "WaitingForHeader", data_start |-> OriginCursor, data_end |-> OriginCursor]

\* FramerState::WaitingForTailingData(TailingDataState)
WaitingForTailingData(ds, de) ==
    [tag |-> "WaitingForTailingData", data_start |-> ds, data_end |-> de]

NoFrame == [packet |-> <<>>, data_start |-> OriginCursor]

\* the results of FrameIter::next
ResFrame == [kind |-> "Frame", n |-> 0]
ResWaitingForHeader == [kind |-> "WaitingForHeader", n |-> 0]
ResWaitingForData(n) == [kind |-> "WaitingForData", n |-> n]
ResDecodeError == [kind |-> "DecodeError", n |-> 0]
ResPanic == [kind |-> "Panic", n |-> 0]
ResNone == [kind |-> "none", n |-> 0]

\* the length test "len > max_frame_size" written "len >= max_frame_size"
len_rejected_at_max(len) == len < 0 \/ len >= max_frame_size

\* len < 0 || len as usize > self.framer.max_frame_size
len_rejected(len) == len < 0 \/ len > max_frame_size

\* partition_before that moves one buffer too few when the cursor sits on
\* a buffer boundary
partition_before_full_pages(b, c) == split_to_full_pages(b, c)

\* Multibytes::partition_before, the name framer.rs calls split_to by
partition_before(b, c) == split_to(b, c)

\* emit_frame without the reset of the state to WaitingForHeader
emit_frame_keeps_state(r, data_start, data_end, st) ==
    LET sp == partition_before(r, data_end)
    IN  IF sp.panic
        THEN [ring |-> r, state |-> st, res |-> ResPanic, frame |-> NoFrame]
        ELSE [ring |-> sp.rest, state |-> st, res |-> ResFrame,
              frame |-> [packet |-> sp.ret, data_start |-> data_start]]

\* Ok(Frame { packet: ring.partition_before(&data_end), data_start }),
\* after which the state is WaitingForHeader
emit_frame(r, data_start, data_end, st) ==
    LET sp == partition_before(r, data_end)
    IN  IF sp.panic
        THEN [ring |-> r, state |-> st, res |-> ResPanic, frame |-> NoFrame]
        ELSE [ring |-> sp.rest, state |-> WaitingForHeader, res |-> ResFrame,
              frame |-> [packet |-> sp.ret, data_start |-> data_start]]

\* a DecodeError that throws away what was buffered
decode_error_discarding(r, st) ==
    [ring |-> <<>>, state |-> st, res |-> ResDecodeError, frame |-> NoFrame]

\* return Err(FrameError::DecodeError): the ring and the state are left
\* as they were
decode_error(r, st) ==
    [ring |-> r, state |-> st, res |-> ResDecodeError, frame |-> NoFrame]

\* FrameIter::next on a framer with ring r and state st: the ring and
\* state afterwards, the result, and the Frame when the result is a Frame
FrameIter_next(r, st) ==
    IF st.tag = "WaitingForHeader"
    THEN LET p == varint(r, OriginCursor)
         IN  CASE p.kind = "Ok" ->
                    IF len_rejected(p.value)
                    THEN decode_error(r, st)
                    ELSE LET data_start == p.c
                             adv == advance(data_start, r, p.value)
                         IN  IF adv.ok
                             THEN emit_frame(r, data_start, adv.c, st)
                             ELSE [ring  |-> r,
                                   state |-> WaitingForTailingData(data_start, adv.c),
                                   res   |-> ResWaitingForData(run_off_end(adv.c, r)),
                                   frame |-> NoFrame]
               [] p.kind = "Incomplete" ->
                    [ring |-> r, state |-> st, res |-> ResWaitingForHeader, frame |-> NoFrame]
               [] p.kind = "Error" ->
                    decode_error(r, st)
               [] OTHER ->
                    [ring |-> r, state |-> st, res |-> ResPanic, frame |-> NoFrame]
    ELSE LET tu == true_up(st.data_end, r)
         IN  IF tu.ok
             THEN emit_frame(r, st.data_start, tu.c, st)
             ELSE [ring  |-> r,
                   state |-> WaitingForTailingData(st.data_start, tu.c),
                   res   |-> ResWaitingForData(run_off_end(tu.c, r)),
                   frame |-> NoFrame]

\* the logical position of cursor c in b: the bytes of the buffers before
\* buffer c.of, plus c.i
LogicalPos(c, b) == Total(TakeFirst(b, IF c.of < Len(b) THEN c.of ELSE Len(b))) + c.i

\* what a caller observes of a returned Frame: the bytes of its packet,
\* the position of its data_start cursor in the packet and what that
\* cursor reports as remaining in the packet
Observed(f) ==
    [bytes          |-> Flatten(f.packet),
     data_pos       |-> LogicalPos(f.data_start, f.packet),
     data_remaining |-> remaining(f.data_start, f.packet)]

\* ghost: next() has not returned DecodeError / returned it first when
\* nframes frames had been emitted
NoDecodeError == [seen |-> FALSE, nframes |-> 0]

DecodeErrorSeen(nframes) == [seen |-> TRUE, nframes |-> nframes]

\* Framer::new
InitFramerVars ==
    /\ ring = <<>>
    /\ fstate = WaitingForHeader
    /\ frames = <<>>
    /\ fres = ResNone
    /\ pushed = <<>>
    /\ fcall = [ring |-> <<>>, tag |-> "none", nframes |-> 0]
    /\ ferr = NoDecodeError

\* Framer::frame(b) : append the buffer b (the FrameIter it returns is
\* stepped by FramerNext)
FramerPush(b) ==
    /\ fres.kind # "Panic"
    /\ Len(pushed) + Len(b) <= MaxStream
    /\ ring' = Append(ring, b)
    /\ pushed' = pushed \o b
    /\ fres' = ResNone
    /\ fcall' = [ring |-> <<>>, tag |-> "none", nframes |-> 0]
    /\ UNCHANGED <<fstate, frames, ferr>>
    /\ UNCHANGED nonFramerVars

\* FrameIter::next
FramerNext ==
    /\ pushed # <<>>
    /\ fres.kind # "Panic"
    /\ LET r == FrameIter_next(ring, fstate)
       IN  /\ ring' = r.ring
           /\ fstate' = r.state
           /\ fres' = r.res
           /\ frames' = IF r.res.kind = "Frame"
                          THEN Append(frames, Observed(r.frame))
                          ELSE frames
           /\ ferr' = IF r.res = ResDecodeError /\ ~ferr.seen
                        THEN DecodeErrorSeen(Len(frames))
                        ELSE ferr
    /\ fcall' = [ring |-> ring, tag |-> fstate.tag, nframes |-> Len(frames)]
    /\ UNCHANGED <<pushed>>
    /\ UNCHANGED nonFramerVars

\* the buffers pushed are non-empty (a socket read of 0 bytes is EOF)
NextFramer ==
    \/ \E n \in 1..(MaxStream - Len(pushed)) :
           \E b \in [1..n -> StreamBytes] : FramerPush(b)
    \/ FramerNext

(***************************************************************************)
(* The wire format (spec section 6), on a flat byte sequence.              *)
(***************************************************************************)
Min(a, b) == IF a < b THEN a ELSE b

\* positions (at most 5) up to the first byte without continuation bit
WireHeaderEnds(s) == {k \in 1..Min(5, Len(s)) : s[k] < 128}

WireHeaderSize(s) == CHOOSE k \in WireHeaderEnds(s) : \A j \in WireHeaderEnds(s) : k <= j

RECURSIVE WireLow(_, _)
\* little-endian 7-bit groups 1 .. k (k <= 4) of s
WireLow(s, k) == IF k = 0 THEN 0 ELSE WireLow(s, k - 1) + (s[k] % 128) * Pow2(7 * (k - 1))

\* the 32-bit two's complement value of a varint of k bytes
WireValue(s, k) ==
    IF k < 5
    THEN WireLow(s, k)
    ELSE (WireLow(s, 4) + (s[5] % 8) * Pow2(28))
         + (IF (s[5] \div 8) % 2 = 1 THEN (-2147483647) - 1 ELSE 0)

\* the length varint at the head of s
WireVarint(s) ==
    IF WireHeaderEnds(s) # {}
    THEN [kind |-> "Ok", size |-> WireHeaderSize(s), value |-> WireValue(s, WireHeaderSize(s))]
    ELSE IF Len(s) >= 5
    THEN [kind |-> "Error", size |-> 0, value |-> 0]
    ELSE [kind |-> "Incomplete", size |-> 0, value |-> 0]

RECURSIVE WireUnits(_)
\* s as a concatenation of units (length varint L, 0 <= L <=
\* max_frame_size, then L bytes): ok is FALSE when s is no such
\* concatenation
WireUnits(s) ==
    IF s = <<>> THEN [ok |-> TRUE, units |-> <<>>]
    ELSE LET h == WireVarint(s)
         IN  IF h.kind # "Ok" THEN [ok |-> FALSE, units |-> <<>>]
             ELSE IF h.value < 0 \/ h.value > max_frame_size \/ Len(s) < h.size + h.value
             THEN [ok |-> FALSE, units |-> <<>>]
             ELSE LET rest == WireUnits(DropFirst(s, h.size + h.value))
                  IN  [ok    |-> rest.ok,
                       units |-> <<[bytes |-> TakeFirst(s, h.size + h.value),
                                    size  |-> h.size,
                                    L     |-> h.value]>> \o rest.units]

(***************************************************************************)
(* Properties of the framer.                                               *)
(***************************************************************************)
\* the last next() since the last push returned something else than a Frame
Drained == fres.kind \in {"WaitingForHeader", "WaitingForData", "DecodeError"}

RECURSIVE DrainAll(_, _, _)
\* next() called on a framer until it returns no Frame
DrainAll(r, st, out) ==
    LET x == FrameIter_next(r, st)
    IN  IF x.res.kind = "Frame"
        THEN DrainAll(x.ring, x.state, Append(out, Observed(x.frame)))
        ELSE [frames |-> out, res |-> x.res]

\* the run of a framer given the whole stream s as one buffer
OneChunkRun(s) == DrainAll(<<s>>, WaitingForHeader, <<>>)

RECURSIVE SumBytes(_)
SumBytes(fs) == IF fs = <<>> THEN 0 ELSE Len(Head(fs).bytes) + SumBytes(Tail(fs))

\* the bytes pushed that no Frame returned so far holds
PendingBytes == DropFirst(pushed, SumBytes(frames))

\* C1 - chunk independence: however the stream pushed so far was cut into
\* non-empty buffers, once next() has returned a non-Frame result the
\* Frames returned (count, order, bytes, payload start) are those of the
\* framer given the same stream as one buffer, a DecodeError shows up in
\* the one run iff in the other, and nothing panics.
C1_ChunkIndependence ==
    /\ fres.kind # "Panic"
    /\ Drained =>
        LET ref == OneChunkRun(pushed)
        IN  /\ frames = ref.frames
            /\ (fres.kind = "DecodeError") <=> (ref.res.kind = "DecodeError")

\* C1 witness: a Frame has been returned and the bytes of the next one
\* arrived in two buffers or more.
C1_Witness ==
    /\ Drained
    /\ Len(frames) >= 1
    /\ Len(ring) >= 2
    /\ Len(pushed) = MaxStream

\* C2 - when the stream pushed is a concatenation of units u1..uk, the
\* Frames returned are units 1, 2, ... in wire order, Frame i holds exactly
\* the bytes of u_i, its data_start has exactly L_i bytes remaining (it
\* stands right after the length varint), and once next() returns no
\* Frame all k have been returned and the result is WaitingForHeader.
C2_FramesAreUnits ==
    LET w == WireUnits(pushed)
    IN  w.ok =>
            /\ Len(frames) <= Len(w.units)
            /\ \A i \in 1..Len(frames) :
                   /\ frames[i].bytes = w.units[i].bytes
                   /\ frames[i].data_remaining = w.units[i].L
                   /\ frames[i].data_pos = w.units[i].size
            /\ Drained => (Len(frames) = Len(w.units) /\ fres = ResWaitingForHeader)

\* C2 witness: two units or more, one with a payload, all returned.
C2_Witness ==
    /\ WireUnits(pushed).ok
    /\ Len(frames) >= 2
    /\ \E i \in 1..Len(frames) : frames[i].data_remaining = 2
    /\ fres = ResWaitingForHeader
    /\ Len(frames) = Len(WireUnits(pushed).units)

\* C3 - WaitingForData(n): n is the size of the pending frame (length
\* varint plus L) minus the bytes accumulated for it, and n >= 1, on the
\* call that decodes the header and on the later calls alike.
C3_Shortfall ==
    fres.kind = "WaitingForData" =>
        LET h == WireVarint(PendingBytes)
        IN  /\ h.kind = "Ok"
            /\ fres.n = h.size + h.value - Len(PendingBytes)
            /\ fres.n >= 1

\* C3 witness: a call made in the WaitingForTailingData state, after a
\* further push, that is still one byte short.
C3_Witness ==
    /\ fres = ResWaitingForData(1)
    /\ fcall.tag = "WaitingForTailingData"
    /\ Len(ring) >= 2
    /\ Len(frames) >= 1

\* C4 - a call in the WaitingForHeader state whose length header decodes
\* to L fails with DecodeError exactly when L < 0 or L > max_frame_size;
\* L = max_frame_size is accepted; a DecodeError removes no byte from the
\* accumulation buffer and returns no Frame.
C4_LengthCheck ==
    LET h == WireVarint(Flatten(fcall.ring))
    IN  (fcall.tag = "WaitingForHeader" /\ h.kind = "Ok") =>
            /\ (fres.kind = "DecodeError") <=> (h.value < 0 \/ h.value > max_frame_size)
            /\ h.value = max_frame_size => fres.kind \in {"Frame", "WaitingForData"}
            /\ fres.kind = "DecodeError" =>
                   /\ ring = fcall.ring
                   /\ Len(frames) = fcall.nframes
                   /\ fstate = WaitingForHeader

\* C4 witness: a five-byte header that decodes to a negative length is
\* refused after a Frame was returned.
C4_Witness ==
    /\ fcall.tag = "WaitingForHeader"
    /\ WireVarint(Flatten(fcall.ring)).kind = "Ok"
    /\ WireVarint(Flatten(fcall.ring)).value < 0
    /\ fres.kind = "DecodeError"

(***************************************************************************)
(* mempool.rs : GlobalMemPool, TLMemPool, Part.                            *)
(* A slab is a SliceLifecycle: entry k of page p. Every slab is wrapped in *)
(* ManuallyDrop everywhere, so Page.refcount is never decremented and no   *)
(* page is ever unmapped; the count that decides reclamation is the strong *)
(* count of the Rc<SliceRef> all the Parts of one allocation share.        *)
(***************************************************************************)
\* GlobalMemPoolSettings of the modelled pool
page_entries == 2

tls_entries == 1

\* the values of GlobalMemPoolSettings.concurrent_allocation_limit modelled
Limits == {1, 2}

\* the threads using the pool; each has its own thread_local LUT
Threads == {"t1", "t2"}

\* the threads that contend for the page-allocation gate
GateThreads == Threads \cup {"t3"}

Slabs == 1..(MaxMapped * page_entries)

\* entry k of the page mapped as number p (p = 1, 2, ...)
SlabOf(p, k) == (p - 1) * page_entries + k + 1

\* lut[gidx] of a thread that has not called install_tl_cache
NoTlCache == [installed |-> FALSE, cache |-> <<>>]

\* TLMemPool { cache: Vec::with_capacity(tls_entries) }
NewTlCache == [installed |-> TRUE, cache |-> <<>>]

NoEvent == [op |-> "none", s |-> 0, before |-> 0, shared |-> FALSE, reclaimed |-> FALSE]

\* Rc::new : the strong count of a fresh Rc<SliceRef>
Rc_new == 1

Part_clone_no_count(st) == st

\* #[derive(Clone)] on Part { b: Rc<SliceRef>, .. } : Rc::clone, strong += 1
Part_clone(st) == st + 1

\* dropping a Part drops its Rc : strong -= 1 (SliceRef::drop runs at 0)
Part_drop(st) == st - 1

reclaim_both_pools(c, mem, s) ==
    IF c.installed /\ tls_entries - Len(c.cache) > 0
    THEN [tl |-> [c EXCEPT !.cache = Append(c.cache, s)], memory |-> Append(mem, s)]
    ELSE [tl |-> c, memory |-> Append(mem, s)]

\* GlobalMemPool::reclaim on a thread whose LUT entry is c, global queue mem
reclaim(c, mem, s) ==
    IF c.installed /\ tls_entries - Len(c.cache) > 0
    THEN [tl |-> [c EXCEPT !.cache = Append(c.cache, s)], memory |-> mem]
    ELSE [tl |-> c, memory |-> Append(mem, s)]

admitted_at_limit(previous_allocs) == previous_allocs <= concurrent_allocation_limit

\* the admission test of allocate_global on the value fetch_add returned
admitted(previous_allocs) == previous_allocs <= concurrent_allocation_limit - 1

\* GlobalMemPool::new(settings) with concurrent_allocation_limit = limit
NewPool(limit) ==
    /\ concurrent_allocation_limit = limit
    /\ memory = <<>>
    /\ allocs = 0
    /\ tl = [t \in GateThreads |-> NoTlCache]
    /\ pc = [t \in GateThreads |-> "idle"]
    /\ first = [t \in GateThreads |-> 0]
    /\ itr = [t \in GateThreads |-> 0]
    /\ mapped = 0
    /\ strong = [s \in Slabs |-> 0]
    /\ live = [s \in Slabs |-> 0]
    /\ owner = [s \in Slabs |-> "none"]
    /\ shared = [s \in Slabs |-> FALSE]
    /\ pev = NoEvent

\* the pool of tests::smoke_test: concurrent_allocation_limit: 1
InitPoolVars == NewPool(1)

\* Part::new(Rc::new(SliceRef { sl })) : thread t receives slab s, which
\* allocate took from its thread-local cache, the global queue or a new page
PartNew(t, s, from) ==
    /\ strong' = [strong EXCEPT ![s] = Rc_new]
    /\ live' = [live EXCEPT ![s] = 1]
    /\ owner' = [owner EXCEPT ![s] = t]
    /\ shared' = [shared EXCEPT ![s] = FALSE]
    /\ pev' = [op |-> from, s |-> s, before |-> live[s], shared |-> FALSE, reclaimed |-> FALSE]

\* GlobalMemPool::install_tl_cache (get_or_insert: a no-op when installed)
InstallTlCache(t) ==
    /\ pc[t] = "idle"
    /\ ~tl[t].installed
    /\ tl' = [tl EXCEPT ![t] = NewTlCache]
    /\ pev' = NoEvent
    /\ UNCHANGED <<memory, allocs, pc, first, itr, mapped, strong, live, owner, shared>>
    /\ UNCHANGED <<concurrent_allocation_limit, nonPoolVars>>

\* GlobalMemPool::allocate up to the call of allocate_global: the
\* thread-local cache.pop() (a Vec, so the last slab pushed)
Allocate(t) ==
    /\ pc[t] = "idle"
    /\ IF tl[t].installed /\ tl[t].cache # <<>>
       THEN LET c == tl[t].cache
            IN  /\ tl' = [tl EXCEPT ![t].cache = SubSeq(c, 1, Len(c) - 1)]
                /\ PartNew(t, c[Len(c)], "allocate_tl")
                /\ UNCHANGED pc
       ELSE /\ pc' = [pc EXCEPT ![t] = "pop"]
            /\ pev' = NoEvent
            /\ UNCHANGED <<tl, strong, live, owner, shared>>
    /\ UNCHANGED <<memory, allocs, first, itr, mapped>>
    /\ UNCHANGED <<concurrent_allocation_limit, nonPoolVars>>

\* allocate_global: slf.memory.pop() at the head of the loop
GlobalPop(t) ==
    /\ pc[t] = "pop"
    /\ IF memory # <<>>
       THEN /\ memory' = Tail(memory)
            /\ pc' = [pc EXCEPT ![t] = "idle"]
            /\ PartNew(t, Head(memory), "allocate_global")
       ELSE /\ pc' = [pc EXCEPT ![t] = "fetch_add"]
            /\ pev' = NoEvent
            /\ UNCHANGED <<memory, strong, live, owner, shared>>
    /\ UNCHANGED <<allocs, tl, first, itr, mapped>>
    /\ UNCHANGED <<concurrent_allocation_limit, nonPoolVars>>

\* allocate_global: previous_allocs = allocs.fetch_add(1) and the test on it
FetchAdd(t) ==
    /\ pc[t] = "fetch_add"
    /\ allocs' = allocs + 1
    /\ pc' = [pc EXCEPT ![t] = IF admitted(allocs) THEN "map" ELSE "backoff"]
    /\ pev' = NoEvent
    /\ UNCHANGED <<memory, tl, first, itr, mapped, strong, live, owner, shared>>
    /\ UNCHANGED <<concurrent_allocation_limit, nonPoolVars>>

\* allocate_global: map_anon of a new page; first_slice is its entry 0
MapPage(t) ==
    /\ pc[t] = "map"
    /\ mapped < MaxMapped
    /\ mapped' = mapped + 1
    /\ first' = [first EXCEPT ![t] = SlabOf(mapped + 1, 0)]
    /\ itr' = [itr EXCEPT ![t] = 1]
    /\ pc' = [pc EXCEPT ![t] = "push"]
    /\ pev' = NoEvent
    /\ UNCHANGED <<memory, allocs, tl, strong, live, owner, shared>>
    /\ UNCHANGED <<concurrent_allocation_limit, nonPoolVars>>

\* allocate_global: one turn of  for itr in 1..page_entries { memory.push }
PushSlab(t) ==
    /\ pc[t] = "push"
    /\ itr[t] < page_entries
    /\ memory' = Append(memory, first[t] + itr[t])
    /\ itr' = [itr EXCEPT ![t] = itr[t] + 1]
    /\ pev' = NoEvent
    /\ UNCHANGED <<allocs, tl, pc, first, mapped, strong, live, owner, shared>>
    /\ UNCHANGED <<concurrent_allocation_limit, nonPoolVars>>

\* allocate_global: allocs.fetch_sub(1) after the loop, return first_slice
AdmittedReturn(t) ==
    /\ pc[t] = "push"
    /\ itr[t] >= page_entries
    /\ allocs' = allocs - 1
    /\ pc' = [pc EXCEPT ![t] = "idle"]
    /\ first' = [first EXCEPT ![t] = 0]
    /\ itr' = [itr EXCEPT ![t] = 0]
    /\ PartNew(t, first[t], "allocate_page")
    /\ UNCHANGED <<memory, tl, mapped>>
    /\ UNCHANGED <<concurrent_allocation_limit, nonPoolVars>>

\* allocate_global: the refused branch, allocs.fetch_sub(1), back off, continue
BackOff(t) ==
    /\ pc[t] = "backoff"
    /\ allocs' = allocs - 1
    /\ pc' = [pc EXCEPT ![t] = "pop"]
    /\ pev' = NoEvent
    /\ UNCHANGED <<memory, tl, first, itr, mapped, strong, live, owner, shared>>
    /\ UNCHANGED <<concurrent_allocation_limit, nonPoolVars>>

\* thread t clones one of its Parts of slab s
PartClone(t, s) ==
    /\ pc[t] = "idle"
    /\ owner[s] = t
    /\ live[s] >= 1
    /\ live[s] < MaxParts
    /\ strong' = [strong EXCEPT ![s] = Part_clone(strong[s])]
    /\ live' = [live EXCEPT ![s] = live[s] + 1]
    /\ shared' = [shared EXCEPT ![s] = TRUE]
    /\ pev' = NoEvent
    /\ UNCHANGED <<memory, allocs, tl, pc, first, itr, mapped, owner>>
    /\ UNCHANGED <<concurrent_allocation_limit, nonPoolVars>>

\* thread t drops one of its Parts of slab s; the Rc runs SliceRef::drop,
\* and so reclaim, when the strong count reaches 0
PartDrop(t, s) ==
    /\ pc[t] = "idle"
    /\ owner[s] = t
    /\ live[s] >= 1
    /\ live' = [live EXCEPT ![s] = live[s] - 1]
    /\ strong' = [strong EXCEPT ![s] = Part_drop(strong[s])]
    /\ owner' = [owner EXCEPT ![s] = IF live[s] = 1 THEN "none" ELSE t]
    /\ shared' = [shared EXCEPT ![s] = IF live[s] = 1 THEN FALSE ELSE shared[s]]
    /\ IF Part_drop(strong[s]) = 0
       THEN LET r == reclaim(tl[t], memory, s)
            IN  /\ tl' = [tl EXCEPT ![t] = r.tl]
                /\ memory' = r.memory
                /\ pev' = [op |-> "drop", s |-> s, before |-> live[s],
                            shared |-> shared[s], reclaimed |-> TRUE]
       ELSE /\ pev' = [op |-> "drop", s |-> s, before |-> live[s],
                        shared |-> shared[s], reclaimed |-> FALSE]
            /\ UNCHANGED <<tl, memory>>
    /\ UNCHANGED <<allocs, pc, first, itr, mapped>>
    /\ UNCHANGED <<concurrent_allocation_limit, nonPoolVars>>

NextPool ==
    \/ \E t \in Threads : InstallTlCache(t)
    \/ \E t \in Threads : Allocate(t)
    \/ \E t \in Threads : GlobalPop(t)
    \/ \E t \in Threads : FetchAdd(t)
    \/ \E t \in Threads : MapPage(t)
    \/ \E t \in Threads : PushSlab(t)
    \/ \E t \in Threads : AdmittedReturn(t)
    \/ \E t \in Threads : BackOff(t)
    \/ \E t \in Threads : \E s \in Slabs : PartClone(t, s)
    \/ \E t \in Threads : \E s \in Slabs : PartDrop(t, s)

\* the page-allocation gate under contention: three threads allocate and
\* drop, none has a thread-local cache
NextGate ==
    \/ \E t \in GateThreads : Allocate(t)
    \/ \E t \in GateThreads : GlobalPop(t)
    \/ \E t \in GateThreads : FetchAdd(t)
    \/ \E t \in GateThreads : MapPage(t)
    \/ \E t \in GateThreads : PushSlab(t)
    \/ \E t \in GateThreads : AdmittedReturn(t)
    \/ \E t \in GateThreads : BackOff(t)
    \/ \E t \in GateThreads : \E s \in Slabs : PartDrop(t, s)

(***************************************************************************)
(* Properties of the memory pool.                                          *)
(***************************************************************************)
\* number of times slab s occurs in the sequence q
Occurrences(q, s) == Cardinality({k \in DOMAIN q : q[k] = s})

RECURSIVE InTlCaches(_, _)
InTlCaches(T, s) ==
    IF T = {} THEN 0
    ELSE LET t == CHOOSE x \in T : TRUE
         IN  Occurrences(tl[t].cache, s) + InTlCaches(T \ {t}, s)

\* number of times slab s occurs in the free pools: the global queue and
\* every thread-local cache
InFreePools(s) == Occurrences(memory, s) + InTlCaches(GateThreads, s)

\* C10: refcount soundness. A slab occurs at most once across the free
\* pools and not at all while a Part sharing it is alive; the drop of a
\* Part pushes the slab to a free pool if and only if it was the last Part
\* sharing the slab, and after that push the slab is in exactly one pool.
C10_RefcountSoundness ==
    /\ \A s \in Slabs :
          /\ InFreePools(s) <= 1
          /\ (live[s] > 0) => (InFreePools(s) = 0)
    /\ (pev.op = "drop") => (pev.reclaimed <=> (pev.before = 1))
    /\ (pev.op = "drop" /\ pev.reclaimed) => (InFreePools(pev.s) = 1)
    /\ (pev.op = "drop" /\ ~pev.reclaimed) => (InFreePools(pev.s) = 0)

\* C10 witness: a slab that was shared by several Parts has just lost its
\* last Part and is back in a free pool.
C10_Witness ==
    /\ pev.op = "drop"
    /\ pev.reclaimed
    /\ pev.before = 1
    /\ pev.shared
    /\ live[pev.s] = 0
    /\ InFreePools(pev.s) = 1

Allocated == {"allocate_tl", "allocate_global", "allocate_page"}

\* the slabs a thread inside allocate_global holds as first_slice
InHand == {first[t] : t \in GateThreads} \ {0}

\* C11: no reuse while referenced. No slab is in a free pool while a live
\* Part refers to it, no slab occurs twice across the free pools (nor in a
\* pool while a thread holds it as the first slice of a new page), and the
\* slab allocate returns had no live Part and is in no pool any more.
C11_NoReuseWhileLive ==
    /\ \A s \in Slabs :
          /\ ~(InFreePools(s) >= 1 /\ live[s] >= 1)
          /\ InFreePools(s) <= 1
          /\ (s \in InHand) => (InFreePools(s) = 0 /\ live[s] = 0)
    /\ (pev.op \in Allocated) =>
          /\ pev.before = 0
          /\ live[pev.s] = 1
          /\ InFreePools(pev.s) = 0

\* C11 witness: a thread is handed a slab out of its thread-local cache (so
\* a slab that was reclaimed before) while the other thread holds a live
\* Part on another slab.
C11_Witness ==
    /\ pev.op = "allocate_tl"
    /\ live[pev.s] = 1
    /\ \E s \in Slabs : s # pev.s /\ live[s] >= 1 /\ owner[s] # owner[pev.s]

\* the threads inside the page-mapping section of allocate_global: admitted
\* by the test on fetch_add's result, the matching fetch_sub not yet done
Mapping == {t \in GateThreads : pc[t] \in {"map", "push"}}

\* C12: the number of threads inside the page-mapping section at once never
\* exceeds concurrent_allocation_limit, nor does the number admitted exceed
\* the in-flight counter.
C12_GateLimit ==
    /\ Cardinality(Mapping) <= concurrent_allocation_limit
    /\ Cardinality(Mapping) <= allocs

\* C12 witness: with a limit of 2 the section is full (two threads inside)
\* and a third thread, refused by the gate, is backing off.
C12_Witness ==
    /\ concurrent_allocation_limit = 2
    /\ Cardinality(Mapping) = 2
    /\ \E t \in GateThreads : pc[t] = "backoff"

\* the step thread t takes next inside allocate_global
AllocateStep(t) ==
    \/ GlobalPop(t) \/ FetchAdd(t) \/ MapPage(t)
    \/ PushSlab(t) \/ AdmittedReturn(t) \/ BackOff(t)

\* the threads inside allocate
Inside == {t \in GateThreads : pc[t] # "idle"}

\* allocate_global has just returned a slab to a caller
SlabReturned == pev.op \in {"allocate_global", "allocate_page"}

\* a thread was admitted and needs a page beyond the MaxMapped pages of
\* the address space: map_anon does not succeed
OutOfPages == \E t \in GateThreads : pc[t] = "map" /\ mapped >= MaxMapped

\* C40: the gate cannot deadlock. With threads scheduled fairly and
\* map_anon succeeding, whenever a thread is inside allocate, eventually a
\* call of allocate returns a slab.
C40_GateProgress == (Inside # {}) ~> (SlabReturned \/ OutOfPages)

\* when every call has returned the in-flight counter is 0: each fetch_add,
\* of an admitted and of a refused thread, was matched by one fetch_sub
C40_CounterRestored == (Inside = {}) => (allocs = 0)

(***************************************************************************)
(* zlib.rs : the raw zlib primitive behind ZlibOperator::process.          *)
(* deflate and inflate are the C library's; they are modelled by a         *)
(* run-length codec that keeps the behaviour zlib.h documents and          *)
(* compress.rs depends on: a call consumes input and produces output until *)
(* the input is empty or the output is full, output that found no room     *)
(* stays pending inside the stream for the next call, a sync flush ends    *)
(* the output of a call with a marker, and a call that can make no         *)
(* progress returns Z_BUF_ERROR. A stream that was finished ends with a    *)
(* final block and its check value; inflate returns Z_STREAM_END when it   *)
(* has read them, and from then on every inflate call on that stream       *)
(* returns Z_STREAM_END at once, consuming and producing nothing, until    *)
(* inflateReset.                                                           *)
(* The compressed form of a payload:  ZHeader, then for each run of n      *)
(* equal bytes b the pair ZCount(n), b, then ZSync after each flush, and   *)
(* ZEnd where the stream was finished.                                     *)
(***************************************************************************)
PayloadBytes == {1, 2}

ZHeader == 120

ZSync == 255

ZEnd == 254

ZCount(n) == 100 + n

ZCounts == {ZCount(n) : n \in 1..9}

\* the return codes of deflate and inflate
Z_OK == "Ok"
Z_STREAM_END == "StreamEnd"
Z_DATA_ERROR == "DataError"
Z_BUF_ERROR == "BufError"

NoError == "None"

\* ZLibError::lookup(i) : Some(error) for the codes -1..-6, None for every
\* other code, Z_OK (0) and Z_STREAM_END (1) alike
lookup(i) == IF i \in {Z_DATA_ERROR, Z_BUF_ERROR} THEN i ELSE NoError

RECURSIVE RunLength(_)
\* length of the run of equal bytes at the head of a non-empty sequence; a
\* run is looked for in the last 9 bytes only, the most a ZCount can carry
RunLength(s) ==
    IF Len(s) >= 2 /\ s[2] = s[1] /\ Len(s) <= 9
    THEN 1 + RunLength(Tail(s))
    ELSE 1

RECURSIVE Compressed(_)
\* the compressed form of the bytes s
Compressed(s) ==
    IF s = <<>> THEN <<>>
    ELSE LET n == RunLength(s)
         IN  <<ZCount(n), s[1]>> \o Compressed(SubSeq(s, n + 1, Len(s)))

\* Deflate::new : no header written yet, nothing pending
NewDeflate == [init |-> TRUE, pending |-> <<>>, flushed |-> FALSE]

\* Inflate::new : the header is expected first
NewInflate == [stage |-> "head", n |-> 0, run |-> 0, b |-> 0]

\* first k elements of s, and the rest
FirstN(s, k) == SubSeq(s, 1, IF k < Len(s) THEN k ELSE Len(s))

AfterN(s, k) == SubSeq(s, (IF k < Len(s) THEN k ELSE Len(s)) + 1, Len(s))

\* <Deflate as ZlibOperator>::process(SyncFlush) with next_in/avail_in = in
\* and avail_out = room. Pending output is flushed first, and if it fills
\* the output the input is left alone; otherwise all the input is taken,
\* compressed and followed by the flush marker, and as much as fits is
\* written. With no input, nothing pending and the previous flush complete
\* there is nothing to do: Z_BUF_ERROR.
deflate(z, in, room) ==
    IF z.pending # <<>> /\ Len(z.pending) >= room
    THEN [ret |-> Z_OK, rest |-> in, out |-> FirstN(z.pending, room),
          z |-> [z EXCEPT !.pending = AfterN(z.pending, room), !.flushed = FALSE]]
    ELSE IF z.pending = <<>> /\ in = <<>> /\ z.flushed
    THEN [ret |-> Z_BUF_ERROR, rest |-> in, out |-> <<>>, z |-> z]
    ELSE LET all == z.pending \o (IF z.init THEN <<ZHeader>> ELSE <<>>)
                      \o Compressed(in) \o <<ZSync>>
         IN  [ret |-> Z_OK, rest |-> <<>>, out |-> FirstN(all, room),
              z |-> [init |-> FALSE, pending |-> AfterN(all, room),
                     flushed |-> Len(all) < room]]

RECURSIVE inflate_loop(_, _, _, _, _)
\* the decoding loop of inflate: copy the run being expanded while there is
\* room, else read the next input byte
inflate_loop(z, in, room, out, progress) ==
    IF z.stage = "done"
    THEN [ret |-> Z_STREAM_END, rest |-> in, out |-> out, z |-> z]
    ELSE IF z.run > 0
    THEN IF room = 0
         THEN [ret |-> Z_OK, rest |-> in, out |-> out, z |-> z]
         ELSE inflate_loop([z EXCEPT !.run = z.run - 1], in, room - 1,
                           Append(out, z.b), TRUE)
    ELSE IF in = <<>>
    THEN [ret |-> IF progress THEN Z_OK ELSE Z_BUF_ERROR,
          rest |-> in, out |-> out, z |-> z]
    ELSE LET s == Head(in)
         IN  IF z.stage = "head"
             THEN IF s = ZHeader
                  THEN inflate_loop([z EXCEPT !.stage = "code"], Tail(in), room, out, TRUE)
                  ELSE [ret |-> Z_DATA_ERROR, rest |-> in, out |-> out, z |-> z]
             ELSE IF z.stage = "code"
             THEN IF s = ZSync
                  THEN inflate_loop(z, Tail(in), room, out, TRUE)
                  ELSE IF s = ZEnd
                  THEN inflate_loop([z EXCEPT !.stage = "done"], Tail(in), room, out, TRUE)
                  ELSE IF s \in ZCounts
                  THEN inflate_loop([z EXCEPT !.stage = "byte", !.n = s - 100],
                                    Tail(in), room, out, TRUE)
                  ELSE [ret |-> Z_DATA_ERROR, rest |-> in, out |-> out, z |-> z]
             ELSE inflate_loop([stage |-> "code", n |-> 0, run |-> z.n, b |-> s],
                               Tail(in), room, out, TRUE)

\* <Inflate as ZlibOperator>::process(SyncFlush)
inflate(z, in, room) == inflate_loop(z, in, room, <<>>, FALSE)

\* ZlibOperator::process of the operator op
zlib_process(op, z, in, room) ==
    IF op = "deflate" THEN deflate(z, in, room) ELSE inflate(z, in, room)

(***************************************************************************)
(* compress.rs : MbZlibOp::process, the multi-buffer zlib driver.          *)
(***************************************************************************)
\* the result of MbZlibOp::process: Ok(Multibytes) or Err(ZLibError), the
\* stream state it leaves, and the allocator and zlib calls it made
ProcessResult(ret, mb_out, z, nalloc, ncall) ==
    [ret |-> ret, mb |-> mb_out, z |-> z, allocs |-> nalloc, calls |-> ncall]

\* after the loop: trail_size = buf_out.remaining() - avail_out; the last
\* output buffer is truncated to it and pushed if it is not empty
process_trail(vd, filled) == IF Len(filled) > 0 THEN Append(vd, filled) ELSE vd

\* process never returns: the loop runs for ever
Hang == "Hang"

\* an iteration of the loop that changes nothing: the zlib call reports no
\* error, consumes no input, writes no output and leaves the stream as it
\* was, input is left (no pop) and the output buffer is not full (no
\* allocation). The loop has no other state, so the next iteration is the
\* same one again.
idle_iteration(z, in, filled, slab, r) ==
    /\ lookup(r.ret) = NoError
    /\ r.z = z /\ r.rest = in /\ r.out = <<>>
    /\ in # <<>>
    /\ Len(filled) # slab

RECURSIVE process_loop(_, _, _, _, _, _, _, _, _)
\* the loop of MbZlibOp::process: in = the unread part of buf_in, rest = the
\* input buffers not popped yet, filled = what was written to buf_out,
\* vd = the output buffers completed
process_loop(op, z, in, rest, filled, vd, slab, nalloc, ncall) ==
    LET r == zlib_process(op, z, in, slab - Len(filled))
        filled2 == filled \o r.out
    IN  IF lookup(r.ret) # NoError
        THEN ProcessResult(r.ret, <<>>, r.z, nalloc, ncall + 1)
        ELSE IF idle_iteration(z, in, filled, slab, r)
        THEN ProcessResult(Hang, <<>>, r.z, nalloc, ncall + 1)
        ELSE IF r.rest = <<>> /\ rest = <<>>
        THEN ProcessResult(Z_OK, process_trail(vd, filled2), r.z, nalloc, ncall + 1)
        ELSE LET in2   == IF r.rest = <<>> THEN Head(rest) ELSE r.rest
                 rest2 == IF r.rest = <<>> THEN Tail(rest) ELSE rest
             IN  IF Len(filled2) = slab
                 THEN process_loop(op, r.z, in2, rest2, <<>>, Append(vd, filled2),
                                   slab, nalloc + 1, ncall + 1)
                 ELSE process_loop(op, r.z, in2, rest2, filled2, vd,
                                   slab, nalloc, ncall + 1)

\* MbZlibOp::process(b) with output buffers of slab bytes
MbZlibOp_process(op, z, b, slab) ==
    IF b = <<>>
    THEN ProcessResult(Z_OK, b, z, 0, 0)
    ELSE process_loop(op, z, Head(b), Tail(b), <<>>, <<>>, slab, 1, 0)

\* GlobalMemPoolSettings.buf_size stands for the size of an output buffer:
\* the allocator of a round trip hands out buffers of zslab bytes
InitZlibVars ==
    /\ zslab \in 1..MaxSlab
    /\ zpayload = <<>>
    /\ zdeflate = NewDeflate
    /\ zinflate = NewInflate
    /\ compressed = ProcessResult("none", <<>>, NewDeflate, 0, 0)
    /\ reinflated = ProcessResult("none", <<>>, NewInflate, 0, 0)
    /\ zstage = "payload"

\* one more input buffer of the payload (vd.push_back(buffer))
ZPayloadAppend(buf) ==
    /\ zstage = "payload"
    /\ Total(zpayload) + Len(buf) <= MaxPayload
    /\ zpayload' = Append(zpayload, buf)
    /\ UNCHANGED <<zslab, zdeflate, zinflate, compressed, reinflated, zstage>>
    /\ UNCHANGED nonZlibVars

\* compressed = deflate.process(mb)
ZDeflate ==
    /\ zstage = "payload"
    /\ LET r == MbZlibOp_process("deflate", zdeflate, zpayload, zslab)
       IN  /\ compressed' = r
           /\ zdeflate' = r.z
    /\ zstage' = "compressed"
    /\ UNCHANGED <<zslab, zpayload, zinflate, reinflated>>
    /\ UNCHANGED nonZlibVars

\* reinflated = inflate.process(compressed)
ZInflate ==
    /\ zstage = "compressed"
    /\ compressed.ret = Z_OK
    /\ LET r == MbZlibOp_process("inflate", zinflate, compressed.mb, zslab)
       IN  /\ reinflated' = r
           /\ zinflate' = r.z
    /\ zstage' = "reinflated"
    /\ UNCHANGED <<zslab, zpayload, zdeflate, compressed>>
    /\ UNCHANGED nonZlibVars

NextZlib ==
    \/ \E n \in 1..MaxPayload : \E buf \in [1..n -> PayloadBytes] : ZPayloadAppend(buf)
    \/ ZDeflate
    \/ ZInflate

(***************************************************************************)
(* Properties of the multi-buffer zlib driver.                             *)
(***************************************************************************)
\* C13: inflate/deflate inverse through the driver. Deflating a payload
\* with MbZlibOp::process succeeds, and inflating the result with
\* MbZlibOp::process succeeds and yields exactly the payload's bytes in
\* order, whatever the input buffers and the output buffer size.
C13_RoundTrip ==
    /\ (zstage = "compressed") => (compressed.ret = Z_OK)
    /\ (zstage = "reinflated") =>
          /\ reinflated.ret = Z_OK
          /\ Flatten(reinflated.mb) = Flatten(zpayload)

(***************************************************************************)
(* inflater.rs : PacketInflater.                                           *)
(***************************************************************************)
\* PacketInflater::new : inflate: None
NoInflateState == [enabled |-> FALSE, threshold |-> 0, inflater |-> NewInflate]

\* Some(InflateState { threshold, inflater: Inflater::inflate() })
InflateState(threshold) ==
    [enabled |-> TRUE, threshold |-> threshold, inflater |-> NewInflate]

\* what PacketInflater::inflate returns, with the allocator and zlib calls
\* it made: kind is "Packet" or the InflaterError; a Packet has the header
\* h and the data d, DataBacking::Cursor(cursor) or DataBacking::Multibytes(mb)
InflateResult(kind, h, backing, c, m, nalloc, ncall) ==
    [kind |-> kind, h |-> h, backing |-> backing, cursor |-> c, mb |-> m,
     allocs |-> nalloc, calls |-> ncall]

NoResult == InflateResult("none", <<>>, "none", OriginCursor, <<>>, 0, 0)

InflateError(kind, ncall, nalloc) ==
    InflateResult(kind, <<>>, "none", OriginCursor, <<>>, nalloc, ncall)

packet_uncompressed_split(data, c) ==
    InflateResult("Packet", split_to(data, c).ret, "Cursor", c, <<>>, 0, 0)

\* Ok(Packet { h: data, d: DataBacking::Cursor(cursor) })
packet_uncompressed(data, c) ==
    InflateResult("Packet", data, "Cursor", c, <<>>, 0, 0)

small_compression_inclusive(decompressed_size, threshold) ==
    decompressed_size <= threshold

\* decompressed_size < compress.threshold (tested after decompressed_size == 0)
small_compression(decompressed_size, threshold) == decompressed_size < threshold

\* the compressed branch: split the header off, inflate the rest (fed is
\* the Multibytes given to compress.inflater.process)
packet_inflated(st, data, c, slab) ==
    LET sp == split_to(data, c)
        r  == MbZlibOp_process("inflate", st.inflater, sp.rest, slab)
    IN  IF sp.panic
        THEN [st |-> st, res |-> InflateError("Panic", 0, 0)]
        ELSE [st  |-> [st EXCEPT !.inflater = r.z],
              res |-> IF r.ret = Hang
                      THEN InflateError(Hang, r.calls, r.allocs)
                      ELSE IF r.ret # Z_OK
                      THEN InflateError("ZlibError", r.calls, r.allocs)
                      ELSE InflateResult("Packet", sp.ret, "Multibytes", OriginCursor,
                                         r.mb, r.allocs, r.calls),
              fed |-> sp.rest]

\* PacketInflater::inflate(frame, alloc), alloc handing out buffers of slab
\* bytes: the PacketInflater afterwards and the result
PacketInflater_inflate(st, frame, slab) ==
    IF st.enabled
    THEN LET result == varint(frame.packet, frame.data_start)
         IN  IF result.kind = "Ok"
             THEN IF result.value = 0
                  THEN [st |-> st, res |-> packet_uncompressed(frame.packet, result.c)]
                  ELSE IF small_compression(result.value, st.threshold)
                  THEN [st |-> st, res |-> InflateError("SmallCompression", 0, 0)]
                  ELSE packet_inflated(st, frame.packet, result.c, slab)
             ELSE IF result.kind = "Panic"
             THEN [st |-> st, res |-> InflateError("Panic", 0, 0)]
             ELSE [st |-> st, res |-> InflateError("CompressionSizeDecodeFail", 0, 0)]
    ELSE [st |-> st, res |-> packet_uncompressed(frame.packet, frame.data_start)]

\* ---- the frames given to inflate
\* start_compression(threshold): the thresholds tried
Thresholds == {-1, 0, 2, 3}

\* the decompressed_size varints tried: the sizes 0..4, a two-byte 0, a negative size, five
\* continuation bytes, a lone continuation byte, and none at all
SizeVarints ==
    {<<k>> : k \in 0..4}
        \cup {<<128, 0>>, <<128, 128, 128, 128, 8>>, <<128, 128, 128, 128, 128>>,
              <<128>>, <<>>}

\* the payloads whose compressed form is sent
SentPayloads ==
    [1..1 -> PayloadBytes] \cup [1..2 -> PayloadBytes] \cup {<<1, 1, 1>>, <<2, 2, 2, 2>>}

\* the payloads sent as a zlib stream of their own
FinishedPayloads == {<<1>>, <<2, 2>>}

\* a whole zlib stream of the payload p, finished
FinishedStream(p) == <<ZHeader>> \o Compressed(p) \o <<ZEnd>>

\* what follows the size varint: nothing, raw bytes, the compressed form of
\* a payload as the first or as a later part of the peer's stream or as a
\* stream of its own, or junk
Bodies ==
    {<<>>, <<3, 3>>, <<ZHeader, 7>>}
        \cup {<<ZHeader>> \o Compressed(p) \o <<ZSync>> : p \in SentPayloads}
        \cup {Compressed(p) \o <<ZSync>> : p \in SentPayloads}
        \cup {FinishedStream(p) : p \in FinishedPayloads}

\* the frame length prefixes that precede data_start in the packet
Prefixes == {<<>>, <<9>>}

\* the Frame of the bytes s held in one buffer (cut = 0) or in two buffers
\* split after cut bytes, with data_start after the first skip bytes, as
\* the framer leaves it (advanced from the origin)
FrameOf(s, skip, cut) ==
    LET packet == IF cut = 0 THEN <<s>> ELSE <<SubSeq(s, 1, cut), SubSeq(s, cut + 1, Len(s))>>
    IN  [packet     |-> packet,
         data_start |-> IF skip = 0 THEN OriginCursor
                        ELSE advance(OriginCursor, packet, skip).c,
         skip       |-> skip]

\* where the bytes are cut in two buffers (0: not at all): anywhere up to
\* one byte into what follows the size varint
CutPoints(prefix, sz, body) ==
    0..Min(Len(prefix \o sz \o body) - 1, Len(prefix \o sz) + 1)

NoFrameGiven == [packet |-> <<>>, data_start |-> OriginCursor, skip |-> 0]

\* ghost: zlib was given nothing / the Multibytes data
NothingFed == [called |-> FALSE, data |-> <<>>]

Fed(data) == [called |-> TRUE, data |-> data]

InitInflaterVars ==
    /\ pinflater = NoInflateState
    /\ pframe = NoFrameGiven
    /\ pwas = NoInflateState
    /\ presult = NoResult
    /\ pfed = NothingFed

\* PacketInflater::start_compression(threshold)
StartCompression(threshold) ==
    /\ presult = NoResult
    /\ pinflater' = InflateState(threshold)
    /\ UNCHANGED <<pframe, pwas, presult, pfed>>
    /\ UNCHANGED nonInflaterVars

\* PacketInflater::inflate(frame, alloc)
Inflate(frame, slab) ==
    /\ presult = NoResult
    /\ LET r == PacketInflater_inflate(pinflater, frame, slab)
       IN  /\ pinflater' = r.st
           /\ presult' = r.res
           /\ pfed' = IF "fed" \in DOMAIN r THEN Fed(r.fed) ELSE NothingFed
    /\ pframe' = frame
    /\ pwas' = pinflater
    /\ UNCHANGED nonInflaterVars

\* the caller consumes the result of inflate
TakeResult ==
    /\ presult # NoResult
    /\ presult.kind \notin {"Panic", Hang}
    /\ presult' = NoResult
    /\ pfed' = NothingFed
    /\ pframe' = NoFrameGiven
    /\ pwas' = NoInflateState
    /\ UNCHANGED pinflater
    /\ UNCHANGED nonInflaterVars

NextInflater ==
    \/ \E threshold \in Thresholds : StartCompression(threshold)
    \/ \E prefix \in Prefixes, sz \in SizeVarints, body \in Bodies, slab \in {1, MaxSlab} :
          \E cut \in CutPoints(prefix, sz, body) :
             Inflate(FrameOf(prefix \o sz \o body, Len(prefix), cut), slab)
    \/ TakeResult

\* ---- the last call seen from outside: the bytes of the frame given
\* the payload of the frame: its bytes from data_start on
FramePayload == DropFirst(Flatten(pframe.packet), pframe.skip)

\* the size varint the payload starts with, decoded from the flat bytes
DeclaredSize == WireVarint(FramePayload)

InflateCalled == presult # NoResult

\* C14: with compression enabled, inflate returns a Packet whose data is an
\* inflated Multibytes only when the compressed bytes inflate to exactly the
\* declared decompressed_size, and never hands out more bytes than declared.
C14_InflatesToDeclaredSize ==
    (InflateCalled /\ pwas.enabled /\ presult.kind = "Packet"
            /\ presult.backing = "Multibytes")
        => /\ DeclaredSize.kind = "Ok"
           /\ Total(presult.mb) = DeclaredSize.value

\* the frame is not compressed: compression is off, or the size varint is 0
Uncompressed == ~pwas.enabled \/ (DeclaredSize.kind = "Ok" /\ DeclaredSize.value = 0)

\* the bytes of the payload that are data: all of it with compression off,
\* else what follows the size varint
UncompressedData ==
    IF pwas.enabled THEN DropFirst(FramePayload, DeclaredSize.size) ELSE FramePayload

\* C15: an uncompressed frame passes through untouched: h is the whole
\* Multibytes of the frame (the same buffers), no allocator or zlib call is
\* made, d is the Cursor at data_start (compression off) or right after the
\* size varint (compression on), and the bytes from it are the payload.
C15_PassThrough ==
    (InflateCalled /\ Uncompressed) =>
        /\ presult.kind = "Packet"
        /\ presult.h = pframe.packet
        /\ presult.backing = "Cursor"
        /\ presult.allocs = 0 /\ presult.calls = 0
        /\ pinflater = pwas
        /\ ~pwas.enabled => presult.cursor = pframe.data_start
        /\ pwas.enabled =>
              LogicalPos(presult.cursor, presult.h) = pframe.skip + DeclaredSize.size
        /\ remaining(presult.cursor, presult.h) = Len(UncompressedData)
        /\ DropFirst(Flatten(presult.h), LogicalPos(presult.cursor, presult.h))
              = UncompressedData

\* a frame in two buffers with a length prefix and a two-byte size varint 0
\* passed through with compression on, its data on the second buffer
C15_Witness ==
    /\ InflateCalled /\ Uncompressed /\ pwas.enabled
    /\ presult.kind = "Packet"
    /\ Len(pframe.packet) = 2 /\ pframe.skip = 1
    /\ DeclaredSize.size = 2
    /\ presult.cursor.of = 1
    /\ UncompressedData = <<3, 3>>

\* the size varint decoded with compression on
SizeDecoded == InflateCalled /\ pwas.enabled /\ DeclaredSize.kind = "Ok"

\* C16 as stated: SmallCompression exactly when 0 < decompressed_size <
\* threshold; not for a size of 0, a size >= threshold, or a negative size.
C16_SmallCompressionPositiveOnly ==
    SizeDecoded =>
        (presult.kind = "SmallCompression"
            <=> (0 < DeclaredSize.value /\ DeclaredSize.value < pwas.threshold))

\* C16 amended: inflate returns SmallCompression exactly when compression is
\* on, the size varint decodes, and decompressed_size is not 0 and below
\* the threshold, a negative size included; it then calls neither zlib nor
\* the allocator and leaves the PacketInflater as it was.
C16_SmallCompression ==
    InflateCalled =>
        /\ presult.kind = "SmallCompression"
              <=> /\ SizeDecoded
                  /\ DeclaredSize.value # 0
                  /\ DeclaredSize.value < pwas.threshold
        /\ presult.kind = "SmallCompression"
              => /\ presult.allocs = 0 /\ presult.calls = 0
                 /\ pinflater = pwas

\* a negative decompressed_size below a negative threshold is refused
C16_Witness ==
    /\ SizeDecoded
    /\ presult.kind = "SmallCompression"
    /\ DeclaredSize.value < pwas.threshold
    /\ pwas.threshold < 0

\* C17: with compression on, a size varint that cannot be decoded (five
\* continuation bytes, or a payload that ends before the varint does, the
\* empty payload included) gives CompressionSizeDecodeFail, with no zlib and
\* no allocator call; nothing else gives it.
C17_SizeDecodeFail ==
    InflateCalled =>
        /\ presult.kind = "CompressionSizeDecodeFail"
              <=> (pwas.enabled /\ DeclaredSize.kind \in {"Error", "Incomplete"})
        /\ presult.kind = "CompressionSizeDecodeFail"
              => /\ presult.allocs = 0 /\ presult.calls = 0
                 /\ pinflater = pwas

\* five continuation bytes spread over two buffers, more bytes behind them
C17_Witness ==
    /\ InflateCalled /\ pwas.enabled
    /\ presult.kind = "CompressionSizeDecodeFail"
    /\ DeclaredSize.kind = "Error"
    /\ Len(pframe.packet) = 2
    /\ Len(FramePayload) > 5

\* the frame is compressed: compression is on and the size varint decodes
\* to a size that is not 0 and not below the threshold
CompressedCase ==
    /\ InflateCalled /\ pwas.enabled
    /\ DeclaredSize.kind = "Ok"
    /\ DeclaredSize.value # 0
    /\ DeclaredSize.value >= pwas.threshold

\* C30: in the compressed case inflate splits the frame at the cursor after
\* the size varint: the header is exactly the bytes of the frame up to and
\* including the size varint, and exactly the bytes of the frame after it,
\* in order, none lost and none twice, are given to zlib.
C30_SplitAfterSize ==
    CompressedCase =>
        /\ pfed.called
        /\ Flatten(pfed.data)
              = DropFirst(Flatten(pframe.packet), pframe.skip + DeclaredSize.size)
        /\ presult.kind = "Packet" =>
              /\ presult.backing = "Multibytes"
              /\ Flatten(presult.h)
                    = TakeFirst(Flatten(pframe.packet), pframe.skip + DeclaredSize.size)

\* a frame with a length prefix whose first buffer ends inside the
\* compressed bytes: they reach zlib from two buffers and inflate
C30_Witness ==
    /\ CompressedCase
    /\ presult.kind = "Packet"
    /\ pframe.skip = 1
    /\ Len(pframe.packet) = 2 /\ Len(pframe.packet[1]) = 3
    /\ Len(pfed.data) = 2
    /\ Flatten(presult.h) = TakeFirst(Flatten(pframe.packet), 2)
    /\ Total(presult.mb) > 0

(***************************************************************************)
(* buffer.rs : FramedRing, RingFrame, RingFrameMut.                        *)
(***************************************************************************)
\* the elements appended
ElementValues == {1}

\* MaybeUninit<RingElement<T>>: a slot of the ring
UninitSlot == [tag |-> "uninit", next |-> 0, is_live |-> FALSE, v |-> 0]

\* RingElement { header: FrameHeader { next, is_live } }
HeaderSlot(next, is_live) == [tag |-> "header", next |-> next, is_live |-> is_live, v |-> 0]

\* RingElement { element: ManuallyDrop::new(element) }
ElementSlot(v) == [tag |-> "element", next |-> 0, is_live |-> FALSE, v |-> v]

\* a slot that holds no header and had header.is_live = false written into it
ClobberedSlot == [tag |-> "clobbered", next |-> 0, is_live |-> FALSE, v |-> 0]

\* FramedRing::mask
mask(r) == Pow2(r.ring_size_2) - 1

\* i & mask, as a position in the 1-based sequence r.ring
Masked(r, i) == (i % Pow2(r.ring_size_2)) + 1

\* FramedRing::get(i)
ring_get(r, i) == r.ring[Masked(r, i)]

\* the FrameHeaders that reading the union field header of slot i can give:
\* the header stored there, or any bits when the slot holds no header
HeadersAt(r, i) ==
    IF ring_get(r, i).tag = "header"
    THEN {[next |-> ring_get(r, i).next, is_live |-> ring_get(r, i).is_live]}
    ELSE IF ring_get(r, i).tag = "clobbered"
    THEN [next : 0..(MaxHead + 1), is_live : {FALSE}]
    ELSE [next : 0..(MaxHead + 1), is_live : BOOLEAN]

\* the buffer of twice the size with the old buffer copied to its start
grown_buffer_straight(r, head) ==
    [j \in 1..(2 * Pow2(r.ring_size_2)) |->
        IF j <= Pow2(r.ring_size_2) THEN r.ring[j] ELSE UninitSlot]

\* the buffer of twice the size with the elements copied over in two runs:
\* base -> pivot, then pivot -> head
grown_buffer(r, head) ==
    LET len         == Pow2(r.ring_size_2)
        new_len     == 2 * len
        base_i      == r.base % len
        pivot_point == head - (head % len)
        Run1        == 0..(pivot_point - r.base - 1)
        Run2        == 0..(head - pivot_point - 1)
    IN  [j \in 1..new_len |->
            IF \E k \in Run2 : j = ((pivot_point + k) % new_len) + 1
            THEN r.ring[(CHOOSE k \in Run2 : j = ((pivot_point + k) % new_len) + 1) + 1]
            ELSE IF \E k \in Run1 : j = ((r.base % new_len) + k) + 1
            THEN r.ring[base_i + (CHOOSE k \in Run1 : j = ((r.base % new_len) + k) + 1) + 1]
            ELSE UninitSlot]

\* FramedRing::append_to_ring(re)
append_to_ring(r, re) ==
    LET len      == Pow2(r.ring_size_2)
        old_head == r.head
        head     == old_head + 1
        r2       == IF r.base % len = head % len
                    THEN [r EXCEPT !.head = head,
                                   !.ring_size_2 = r.ring_size_2 + 1,
                                   !.ring = grown_buffer(r, head)]
                    ELSE [r EXCEPT !.head = head]
    IN  [r2 EXCEPT !.ring[Masked(r2, old_head)] = re]

\* a RingFrame (mutable: it is the f of a RingFrameMut); items is a ghost,
\* the elements appended to it in order
RingFrame(start, live_at, mutable, items) ==
    [start |-> start, live_at |-> live_at, mutable |-> mutable, items |-> items]

live_base_next_frame(header_idx, next_header_index) == next_header_index

\* self.ring.base.set(header_idx): the base when the frame found is live
live_base(header_idx, next_header_index) == header_idx

\* for i in self.live_at + 1..header.next { ManuallyDrop::drop(..element) }
\* with T one that needs_drop: the indices of the slots dropped
elements_dropped(f, header) == (f.live_at + 1)..(header.next - 1)

\* <RingFrame as Drop>::drop with header read at self.start: the ring
\* afterwards, and whether drop returned, panicked or loops for ever
RingFrame_drop(r, f, header) ==
    IF r.head = header.next
    THEN [r |-> [r EXCEPT !.head = f.start], halt |-> "no"]
    ELSE IF r.base = f.start
    THEN LET header_idx        == f.start
             next_header_index == header_idx + header.next
         IN  IF next_header_index >= r.head
             THEN IF next_header_index > r.head
                  THEN [r |-> r, halt |-> "panic"]
                  ELSE [r |-> [r EXCEPT !.base = r.head], halt |-> "no"]
             ELSE IF header.is_live
             THEN [r |-> [r EXCEPT !.base = live_base(header_idx, next_header_index)],
                   halt |-> "no"]
             ELSE [r |-> r, halt |-> "loop"]
    ELSE [r |-> [r EXCEPT !.ring[Masked(r, f.start)] =
                              IF @.tag = "header" THEN HeaderSlot(header.next, FALSE)
                              ELSE ClobberedSlot],
          halt |-> "no"]

\* RingFrame::len
RingFrame_len(f, header) == header.next - f.start - 1

\* RingFrame::get(index): None, or Some of the element
RingFrame_get(r, f, header, index) ==
    LET i == f.start + index + 1
    IN  IF i >= header.next
        THEN [some |-> FALSE, v |-> 0]
        ELSE [some |-> TRUE, v |-> ring_get(r, i).v]

\* RingFrame::iter, collected: the elements from start + 1 up to header.next
RingFrame_iter(r, f, header) ==
    [j \in 1..(header.next - f.start - 1) |-> ring_get(r, f.start + j).v]

\* the sequence s without its k-th element
Without(s, k) == SubSeq(s, 1, k - 1) \o SubSeq(s, k + 1, Len(s))

\* ghost: what an operation did: try_promote returned Some (some) or None;
\* a frame was dropped that started at start, was the tail frame (tail),
\* sat at the base (atbase) of a ring with base base whose next frame still
\* held started at succ (head if there is none), and the slots below start
\* are as they were (kept); the indices of the slots whose element the drop
\* dropped (dropped) and of the elements of the frame not moved out (owed)
RingEvent(op, some, tail, atbase, start, base, succ, kept, dropped, owed) ==
    [op |-> op, some |-> some, tail |-> tail, atbase |-> atbase, start |-> start,
     base |-> base, succ |-> succ, kept |-> kept, dropped |-> dropped, owed |-> owed]

\* ghost: no operation whose outcome is recorded
NoRingEvent == RingEvent("none", FALSE, FALSE, FALSE, 0, 0, 0, TRUE, {}, {})

\* ghost: try_promote returned Some (some) or None, on a frame that was the
\* tail frame or not; when it returned Some, the ring is as it was before
\* the call (kept) and the drop of the frame passed in dropped the elements
\* in the slots dropped
PromoteEvent(some, tail, kept, dropped) ==
    RingEvent("try_promote", some, tail, FALSE, 0, 0, 0, some => kept,
              IF some THEN dropped ELSE {}, {})

\* ghost: the k-th frame is the tail frame of ring r: its last slot is the
\* one before head and no frame opened after it is still there
TailFrame(r, fs, k) ==
    /\ fs[k].start + Len(fs[k].items) + 1 = r.head
    /\ \A j \in DOMAIN fs : j # k => fs[j].start < fs[k].start

\* ghost: the start of the first frame after the k-th that is still held,
\* or head when there is none
NextHeld(r, fs, k) ==
    LET later == {fs[j].start : j \in {i \in DOMAIN fs : fs[i].start > fs[k].start}}
    IN  IF later = {} THEN r.head
        ELSE CHOOSE m \in later : \A n \in later : m <= n

\* ghost: the slots below index start are the same in r and r2
SlotsKept(r, r2, start) == \A i \in 0..(start - 1) : ring_get(r, i) = ring_get(r2, i)

\* ghost: the slots of the elements of frame f that were not moved out
ElementsOwed(f) == f.live_at..(f.start + Len(f.items))

\* ghost: the k-th frame of fs was dropped from ring r as f (f is fs[k], or
\* fs[k] with elements moved out), with the header read as header, which
\* gave r2
DropEvent(r, fs, k, r2, f, header) ==
    RingEvent("drop", FALSE, TailFrame(r, fs, k), r.base = fs[k].start, fs[k].start,
              r.base, NextHeld(r, fs, k), SlotsKept(r, r2, fs[k].start),
              elements_dropped(f, header), ElementsOwed(f))

\* an empty ring of one slot
InitRingVars ==
    /\ framed = [ring |-> <<UninitSlot>>, base |-> 0, head |-> 0, ring_size_2 |-> 0]
    /\ rframes = <<>>
    /\ rmade = 0
    /\ rhalt = "no"
    /\ rev = NoRingEvent

RingRunning == rhalt = "no"

\* FramedRing::frame
FramedRing_frame ==
    /\ RingRunning
    /\ rframes = <<>>
    /\ rmade < MaxFrames /\ framed.head < MaxHead
    /\ LET start == framed.head
       IN  /\ framed' = append_to_ring(framed, HeaderSlot(start + 1, TRUE))
           /\ rframes' = <<RingFrame(start, start + 1, TRUE, <<>>)>>
    /\ rmade' = rmade + 1
    /\ rev' = NoRingEvent
    /\ UNCHANGED rhalt
    /\ UNCHANGED nonRingVars

\* RingFrameMut::append(element) on the k-th frame
RingFrameMut_append(k, element) ==
    /\ RingRunning
    /\ rframes[k].mutable
    /\ framed.head < MaxHead
    /\ framed' = append_to_ring(framed, ElementSlot(element))
    /\ rframes' = [rframes EXCEPT ![k].items = Append(@, element)]
    /\ rev' = NoRingEvent
    /\ UNCHANGED <<rmade, rhalt>>
    /\ UNCHANGED nonRingVars

\* RingFrameMut::next on the k-th frame
RingFrameMut_next(k) ==
    /\ RingRunning
    /\ rframes[k].mutable
    /\ rmade < MaxFrames /\ framed.head < MaxHead
    /\ LET head == framed.head
       IN  /\ framed' = append_to_ring(framed, HeaderSlot(head + 1, TRUE))
           /\ rframes' = Append([rframes EXCEPT ![k].mutable = FALSE],
                                RingFrame(head, head + 1, TRUE, <<>>))
    /\ rmade' = rmade + 1
    /\ rev' = NoRingEvent
    /\ UNCHANGED rhalt
    /\ UNCHANGED nonRingVars

\* the k-th frame is dropped
RingFrameDrop(k) ==
    /\ RingRunning
    /\ \E header \in HeadersAt(framed, rframes[k].start) :
          LET d == RingFrame_drop(framed, rframes[k], header)
          IN  /\ framed' = d.r
              /\ rhalt' = d.halt
              /\ rev' = DropEvent(framed, rframes, k, d.r, rframes[k], header)
    /\ rframes' = Without(rframes, k)
    /\ UNCHANGED rmade
    /\ UNCHANGED nonRingVars

\* FramedRing::try_promote(frame) with the k-th frame: frame is moved in and
\* dropped when try_promote returns, Some(RingFrameMut) or None
FramedRing_try_promote(k) ==
    /\ RingRunning
    /\ ~rframes[k].mutable
    /\ \E header \in HeadersAt(framed, rframes[k].start) :
          LET d == RingFrame_drop(framed, rframes[k], header)
          IN  /\ framed' = d.r
              /\ rhalt' = d.halt
              /\ rframes' = IF header.next # framed.head
                            THEN Without(rframes, k)
                            ELSE [rframes EXCEPT ![k].mutable = TRUE]
              /\ rev' = PromoteEvent(header.next = framed.head,
                                     TailFrame(framed, rframes, k),
                                     d.r = framed,
                                     elements_dropped(rframes[k], header))
    /\ UNCHANGED rmade
    /\ UNCHANGED nonRingVars

\* the elements RingFrameIntoIter::next moves out in n calls: from live_at
\* up to end, the header.next read by into_iter
moved_out(f, end, n) ==
    IF f.live_at >= end THEN 0 ELSE Min(n, end - f.live_at)

\* ghost: the drop that ends an into_iter, after the iterator has returned
\* None (ended) or before it has
IntoIterEvent(drop, ended) ==
    [field \in DOMAIN drop \cup {"ended"} |->
        IF field = "ended" THEN ended ELSE drop[field]]

\* for e in frame.into_iter().take(n) { .. } with the k-th frame: up to n
\* elements are moved out, then the iterator is dropped and the frame in it
RingFrame_into_iter(k, n) ==
    /\ RingRunning
    /\ ~rframes[k].mutable
    /\ \E header \in HeadersAt(framed, rframes[k].start) :
          LET f == [rframes[k] EXCEPT !.live_at = @ + moved_out(rframes[k], header.next, n)]
              d == RingFrame_drop(framed, f, header)
          IN  /\ framed' = d.r
              /\ rhalt' = d.halt
              /\ rev' = IntoIterEvent(DropEvent(framed, rframes, k, d.r, f, header),
                                      moved_out(rframes[k], header.next, n) < n)
    /\ rframes' = Without(rframes, k)
    /\ UNCHANGED rmade
    /\ UNCHANGED nonRingVars

NextRing ==
    \/ \E k \in DOMAIN rframes, n \in {1, MaxHead} : RingFrame_into_iter(k, n)
    \/ FramedRing_frame
    \/ \E k \in DOMAIN rframes, element \in ElementValues : RingFrameMut_append(k, element)
    \/ \E k \in DOMAIN rframes : RingFrameMut_next(k)
    \/ \E k \in DOMAIN rframes : RingFrameDrop(k)
    \/ \E k \in DOMAIN rframes : FramedRing_try_promote(k)

\* the header slot of frame f still holds its header
HeaderIntact(f) == ring_get(framed, f.start).tag = "header"

\* the header of a frame whose header slot is intact
HeaderOf(f) == CHOOSE header \in HeadersAt(framed, f.start) : TRUE

\* Some(v) / None as RingFrame_get returns them
SomeElement(v) == [some |-> TRUE, v |-> v]

NoElement == [some |-> FALSE, v |-> 0]

\* C18: after k appends on a frame its len() is k, get(i) is the i-th element
\* appended for i < k and None for i >= k, and iter() yields the k elements
\* in insertion order, also once the frame is frozen by next().
C18_FrameContents ==
    \A k \in DOMAIN rframes :
        LET f == rframes[k]
        IN  HeaderIntact(f) =>
               /\ RingFrame_len(f, HeaderOf(f)) = Len(f.items)
               /\ \A i \in 0..MaxHead :
                      RingFrame_get(framed, f, HeaderOf(f), i)
                         = IF i < Len(f.items) THEN SomeElement(f.items[i + 1])
                           ELSE NoElement
               /\ RingFrame_iter(framed, f, HeaderOf(f)) = f.items

\* C19: once every frame opened on the ring has been dropped, in whatever
\* order, the ring is empty: base == head.
C19_EmptyWhenAllDropped ==
    (RingRunning /\ rmade > 0 /\ rframes = <<>>) => framed.base = framed.head

\* C20: base <= head in every reachable state of the ring.
C20_BaseBelowHead == framed.base <= framed.head

\* all three frames were opened, the ring has grown to four slots, the
\* two older frames are dropped and the head is beyond the base
C20_Witness ==
    /\ rmade = MaxFrames
    /\ Len(rframes) = 1
    /\ framed.ring_size_2 >= 2
    /\ framed.base < framed.head

\* C21: try_promote returns a mutable frame exactly when the frame is the
\* head frame of the ring (its last slot is the one before head and no newer
\* frame is open), however many elements it holds; else it returns None.
C21_PromoteIffTail ==
    (rev.op = "try_promote") => (rev.some <=> rev.tail)

\* C25: dropping the frame at base, when it is not the tail frame, sets
\* base to the header index of the first later frame that is still live
\* (skipping the frames marked is_live = false), or to head when there is
\* none: base is not left on the dropped frame nor moved past a live frame.
C25_BaseAdvances ==
    (rev.op = "drop" /\ rev.atbase /\ ~rev.tail) =>
        /\ rhalt = "no"
        /\ framed.base = rev.succ
        /\ framed.base # rev.start

\* C26: dropping the tail frame, the one whose slots end at head, with or
\* without elements, rolls head back to the start of that frame; base and
\* the slots of the earlier frames are unchanged.
C26_TailRollsBack ==
    (rev.op = "drop" /\ rev.tail) =>
        /\ rhalt = "no"
        /\ framed.head = rev.start
        /\ framed.base = rev.base
        /\ rev.kept

\* C29: when a RingFrame is dropped, every element of it that was not moved
\* out through into_iter is dropped exactly once, the first one left
\* included, and no other slot is dropped: none that was moved out, none of
\* another frame.
C29_DropsWhatIsLeft ==
    (rev.op = "drop") => (rev.dropped = rev.owed)

RECURSIVE ChainFrom(_, _)
\* following header.next from slot i leads to head over header slots only
ChainFrom(r, i) ==
    IF i >= r.head
    THEN i = r.head
    ELSE /\ ring_get(r, i).tag = "header"
         /\ ring_get(r, i).next > i
         /\ ChainFrom(r, ring_get(r, i).next)

\* C27: in every reachable state, following header.next from base visits
\* header slots only, never an element slot, and ends exactly at head.
C27_HeaderChain == RingRunning => ChainFrom(framed, framed.base)

(***************************************************************************)
(* buffer.rs : append_to_ring as a function of the ring it is applied to.  *)
(***************************************************************************)
\* a ring of 2^size2 slots that holds the slots base .. head - 1, each one
\* an element marked with its index
RingHolding(size2, base, head) ==
    [ring |-> [j \in 1..Pow2(size2) |->
                  IF \E i \in base..(head - 1) : (i % Pow2(size2)) + 1 = j
                  THEN ElementSlot(100 + (CHOOSE i \in base..(head - 1) : (i % Pow2(size2)) + 1 = j))
                  ELSE UninitSlot],
     base |-> base, head |-> head, ring_size_2 |-> size2]

\* the rings appended to: every size, the base anywhere in three turns of
\* the ring, and zero up to 2^size2 - 1 slots held (an append grows the
\* ring before its last slot is used)
RingInputs ==
    {RingHolding(size2, base, base + n) :
        size2 \in 0..MaxSize2, base \in 0..(3 * Pow2(MaxSize2) - 1), n \in 0..(Pow2(MaxSize2) - 1)}

NoAppend ==
    [called |-> FALSE, before |-> RingHolding(0, 0, 0), re |-> UninitSlot,
     after |-> RingHolding(0, 0, 0)]

InitGrowVars == grow = NoAppend

\* ring.append_to_ring(re) on the ring r
AppendToRing(r, re) ==
    /\ ~grow.called
    /\ r.head - r.base < Pow2(r.ring_size_2)
    /\ grow' = [called |-> TRUE, before |-> r, re |-> re, after |-> append_to_ring(r, re)]
    /\ UNCHANGED nonGrowVars

\* the next append starts from a ring of its own
AppendDone ==
    /\ grow.called
    /\ grow' = NoAppend
    /\ UNCHANGED nonGrowVars

NextGrow ==
    \/ \E r \in RingInputs :
          \E re \in {HeaderSlot(r.head + 1, TRUE)} \cup {ElementSlot(v) : v \in ElementValues} :
             AppendToRing(r, re)
    \/ AppendDone

\* the last append doubled the buffer
Grew == grow.called /\ grow.after.ring_size_2 = grow.before.ring_size_2 + 1

\* C28: growth preserves the contents of the ring: every slot with an
\* index in [base, old head) reads the same after the growth as before,
\* wherever base lies in the old buffer, and the slot appended is stored at
\* the old head index without overwriting any of them.
C28_GrowthPreserves ==
    Grew =>
        /\ \A i \in grow.before.base..(grow.before.head - 1) :
               ring_get(grow.after, i) = ring_get(grow.before, i)
        /\ ring_get(grow.after, grow.before.head) = grow.re
        /\ grow.after.base = grow.before.base
        /\ grow.after.head = grow.before.head + 1

\* a ring of four slots grown with its contents wrapped around the end of
\* the buffer: both copies move slots
C28_Witness ==
    /\ Grew
    /\ grow.before.ring_size_2 = 2
    /\ grow.before.base = 6
    /\ grow.before.head = 9
    /\ ring_get(grow.after, 8) = ElementSlot(108)

(***************************************************************************)
(* parser.rs : varint as a function of the bytes it is given.              *)
(***************************************************************************)
\* the i32 values whose encodings are parsed: the ends of every length of
\* encoding, and negative values
VarintValues ==
    {0, 1, 2, 127, 128, 255, 16383, 16384, 2097151, 2097152, 268435455,
     268435456, 2147483647, -1, -2, -128, -2147483647, (-2147483647) - 1}

RECURSIVE Groups(_)
\* the little-endian 7-bit groups of u >= 0, the high bit set on every
\* byte but the last
Groups(u) == IF u < 128 THEN <<u>> ELSE <<128 + (u % 128)>> \o Groups(u \div 128)

\* the encoding of the i32 v. A negative v is its 32-bit two's complement
\* v + 2^32: four groups for bits 0..27, which are those of v + 2^31, and
\* a fifth byte for bits 28..31, of which bit 31 is set.
EncodeVarint(v) ==
    IF v >= 0
    THEN Groups(v)
    ELSE LET u == (v + 2147483647) + 1
         IN  <<128 + (u % 128), 128 + ((u \div 128) % 128),
               128 + ((u \div 16384) % 128), 128 + ((u \div 2097152) % 128),
               8 + (u \div 268435456)>>

\* n continuation bytes cb
ContinuationRun(n, cb) == [k \in 1..n |-> cb]

\* the bytes that follow the varint in the input
Follows == {<<>>, <<0>>, <<128>>, <<255, 1>>}

\* an input of varint: the bytes lead \o follow after the prefix, in one
\* buffer or cut in two, read from a view that starts after the prefix
VarintCall(kind, v, prefix, lead, follow, cut) ==
    [kind |-> kind, v |-> v, prefix |-> prefix, lead |-> lead, follow |-> follow, cut |-> cut]

NoVarintCall == VarintCall("none", 0, <<>>, <<>>, <<>>, 0)

VarintBytes(a) == a.prefix \o a.lead \o a.follow

\* the encodings of the values, followed by anything
EncodedCalls ==
    {VarintCall("encoded", v, prefix, EncodeVarint(v), follow, cut) :
        v \in VarintValues, prefix \in Prefixes, follow \in Follows,
        cut \in 0..6}

\* up to five continuation bytes: five followed by anything, fewer at the
\* end of the input
ContinuationCalls ==
    {VarintCall("continuation", 0, prefix, ContinuationRun(n, cb), follow, cut) :
        n \in 0..5, cb \in {128, 255}, prefix \in Prefixes, follow \in Follows,
        cut \in 0..6}

VarintCalls ==
    {a \in EncodedCalls \cup ContinuationCalls :
        /\ a.cut < Len(VarintBytes(a)) \/ a.cut = 0
        /\ a.kind = "continuation" /\ Len(a.lead) < 5 => a.follow = <<>>}

\* the Multibytes and the cursor of the view varint is called with
VarintFrame(a) ==
    IF VarintBytes(a) = <<>> THEN NoFrameGiven
    ELSE FrameOf(VarintBytes(a), Len(a.prefix), a.cut)

NoParse == [kind |-> "none", c |-> OriginCursor, value |-> 0]

\* what Framer::frame(..).next() makes of the same bytes, given to a new
\* framer: its result, and whether its ring and state are as before
FramerOn(b) ==
    LET r == FrameIter_next(b, WaitingForHeader)
    IN  [res |-> r.res.kind, same |-> r.ring = b /\ r.state = WaitingForHeader]

NoFramerOn == [res |-> "none", same |-> TRUE]

InitParseVars ==
    /\ vargs = NoVarintCall
    /\ vret = [p |-> NoParse, f |-> NoFramerOn]

\* parser::varint(view), and the framer on the same bytes when they start
\* at the origin
ParseVarint(a) ==
    /\ vargs = NoVarintCall
    /\ vargs' = a
    /\ LET frame == VarintFrame(a)
       IN  vret' = [p |-> varint(frame.packet, frame.data_start),
                    f |-> IF a.prefix = <<>> THEN FramerOn(frame.packet) ELSE NoFramerOn]
    /\ UNCHANGED nonParseVars

\* the result is consumed
ParseDone ==
    /\ vargs # NoVarintCall
    /\ vargs' = NoVarintCall
    /\ vret' = [p |-> NoParse, f |-> NoFramerOn]
    /\ UNCHANGED nonParseVars

NextParse ==
    \/ \E a \in VarintCalls : ParseVarint(a)
    \/ ParseDone

\* C22: for every i32 v, decoding the encoding of v (little-endian 7-bit
\* groups, five bytes of two's complement when v is negative) followed by
\* any bytes returns v and leaves the input right after the last byte of
\* the encoding: the bytes that follow are not consumed.
C22_RoundTrip ==
    (vargs.kind = "encoded") =>
        /\ vret.p.kind = "Ok"
        /\ vret.p.value = vargs.v
        /\ LogicalPos(vret.p.c, VarintFrame(vargs).packet)
               = Len(vargs.prefix) + Len(EncodeVarint(vargs.v))
        /\ remaining(vret.p.c, VarintFrame(vargs).packet) = Len(vargs.follow)

\* a negative value parsed from two buffers, with bytes after it
C22_Witness ==
    /\ vargs.kind = "encoded"
    /\ vargs.v = -128
    /\ vargs.cut = 2
    /\ vargs.follow = <<255, 1>>
    /\ vret.p.kind = "Ok"
    /\ vret.p.value = -128

\* C23: an i32 varint reads at most five bytes. When the first five bytes
\* all have the continuation bit the result is VarintExceededShift whatever
\* follows, and the framer answers DecodeError; when the input ends after
\* fewer than five continuation bytes the result is Incomplete, and the
\* framer answers WaitingForHeader with its state and its buffer unchanged.
C23_FiveBytes ==
    (vargs.kind = "continuation") =>
        IF Len(vargs.lead) = 5
        THEN /\ vret.p.kind = "Error"
             /\ vargs.prefix = <<>> => vret.f.res = "DecodeError"
        ELSE /\ vret.p.kind = "Incomplete"
             /\ vargs.prefix = <<>> => vret.f.res = "WaitingForHeader" /\ vret.f.same

\* five continuation bytes followed by a byte that would end a varint
C23_Witness ==
    /\ vargs.kind = "continuation"
    /\ Len(vargs.lead) = 5
    /\ vargs.follow = <<0>>
    /\ vargs.prefix = <<>>
    /\ vret.p.kind = "Error"
    /\ vret.f.res = "DecodeError"

(***************************************************************************)
(* mempool.rs : the page-mapping branch of allocate_global, slab by slab.  *)
(***************************************************************************)
\* base_ptr.add(itr) : the offset without the shift by buf_size
slab_offset_unshifted(entry, buf_size) == entry

\* base_ptr.add(itr << buf_size) : the offset of an entry of the page
slab_offset(entry, buf_size) == entry * Pow2(buf_size)

\* SliceLifecycle { page, d: Slice { ptr, len } }, ptr as an offset from the
\* base of the mapping of page
Slice(page, offset, len) == [page |-> page, offset |-> offset, len |-> len]

NoSlice == Slice(0, 0, 0)

\* no pool yet
NoPagePool ==
    [made |-> FALSE, page_entries |-> 0, buf_size |-> 0, pc |-> "idle", itr |-> 0,
     first_slice |-> NoSlice, memory |-> <<>>, allocs |-> 0, pages |-> 0,
     returned |-> <<>>]

InitPageVars == pg = NoPagePool

\* GlobalMemPool::new(GlobalMemPoolSettings { buf_size, page_entries, .. })
PagePoolNew(entries, buf_size) ==
    /\ ~pg.made
    /\ pg' = [NoPagePool EXCEPT !.made = TRUE, !.page_entries = entries,
                                !.buf_size = buf_size]
    /\ UNCHANGED nonPageVars

\* allocate_global admitted on an empty queue: fetch_add, map_anon of the
\* next page, first_slice is its entry 0
PageMap ==
    /\ pg.made /\ pg.pc = "idle"
    /\ pg.pages < MaxSliced
    /\ pg' = [pg EXCEPT !.allocs = @ + 1,
                        !.pages = @ + 1,
                        !.first_slice = Slice(pg.pages + 1, 0, Pow2(pg.buf_size)),
                        !.itr = 1,
                        !.pc = "push"]
    /\ UNCHANGED nonPageVars

\* one turn of  for itr in 1..page_entries { memory.push(slice) }
PagePush ==
    /\ pg.pc = "push"
    /\ pg.itr < pg.page_entries
    /\ pg' = [pg EXCEPT !.memory = Append(@, Slice(pg.pages,
                                                   slab_offset(pg.itr, pg.buf_size),
                                                   Pow2(pg.buf_size))),
                        !.itr = @ + 1]
    /\ UNCHANGED nonPageVars

\* allocs.fetch_sub(1); return first_slice
PageReturn ==
    /\ pg.pc = "push"
    /\ pg.itr >= pg.page_entries
    /\ pg' = [pg EXCEPT !.allocs = @ - 1,
                        !.returned = Append(@, pg.first_slice),
                        !.first_slice = NoSlice,
                        !.itr = 0,
                        !.pc = "idle"]
    /\ UNCHANGED nonPageVars

NextPage ==
    \/ \E entries \in 1..MaxEntries, buf_size \in 0..MaxBufSize : PagePoolNew(entries, buf_size)
    \/ PageMap
    \/ PagePush
    \/ PageReturn

\* the Slices of page p handed out or queued, with their multiplicity
QueuedOf(p) == {k \in DOMAIN pg.memory : pg.memory[k].page = p}

ReturnedOf(p) == {k \in DOMAIN pg.returned : pg.returned[k].page = p}

\* the pages whose mapping is complete: the counter is decremented
PagesSliced == IF pg.pc = "idle" THEN 1..pg.pages ELSE 1..(pg.pages - 1)

\* two Slices of one page share no byte
Disjoint(a, b) == a.offset + a.len <= b.offset \/ b.offset + b.len <= a.offset

\* C31: each page mapping yields exactly page_entries slabs of 2^buf_size
\* bytes that do not overlap pairwise: slab 0 is returned to the caller and
\* the other page_entries - 1 are in the global queue when the in-flight
\* counter is decremented; none is lost or there twice, also with
\* page_entries = 1.
C31_PageSlabs ==
    \A p \in PagesSliced :
        /\ Cardinality(ReturnedOf(p)) = 1
        /\ \A k \in ReturnedOf(p) : pg.returned[k].offset = 0
        /\ Cardinality(QueuedOf(p)) = pg.page_entries - 1
        /\ \A k \in QueuedOf(p) \cup ReturnedOf(p) :
              LET sl == IF k \in QueuedOf(p) THEN pg.memory[k] ELSE pg.returned[k]
              IN  /\ sl.len = Pow2(pg.buf_size)
                  /\ sl.offset >= 0
                  /\ sl.offset + sl.len <= pg.page_entries * Pow2(pg.buf_size)
        /\ \A j, k \in QueuedOf(p) : j # k => Disjoint(pg.memory[j], pg.memory[k])
        /\ \A j \in QueuedOf(p), k \in ReturnedOf(p) : Disjoint(pg.memory[j], pg.returned[k])

\* two pages of three slabs of 4 bytes are sliced
C31_Witness ==
    /\ pg.pc = "idle" /\ pg.pages = 2
    /\ pg.page_entries = 3 /\ pg.buf_size = 2
    /\ Len(pg.memory) = 4
    /\ pg.allocs = 0

\* the frame given is compressed and what follows its size varint is the
\* finished zlib stream of the payload p
FrameOfStream(p) ==
    /\ CompressedCase
    /\ pfed.called
    /\ Flatten(pfed.data) = FinishedStream(p)

\* the call returned a Packet whose data is the Multibytes of the bytes p
InflatedTo(p) ==
    /\ presult.kind = "Packet"
    /\ presult.backing = "Multibytes"
    /\ Flatten(presult.mb) = p

\* an earlier frame was inflated to the end of its stream
StreamEnded == pwas.inflater.stage = "done"

\* C34: every compressed frame is inflated as a zlib stream of its own:
\* after a compressed frame was inflated to the end of its stream, a later
\* compressed frame given to the same PacketInflater is inflated to its own
\* plaintext.
C34_EachFrameOwnStream ==
    \A p \in FinishedPayloads : (StreamEnded /\ FrameOfStream(p)) => InflatedTo(p)

\* the first such frame of a PacketInflater is inflated to its plaintext
C34_FirstFrame ==
    \A p \in FinishedPayloads :
        (pwas.inflater = NewInflate /\ FrameOfStream(p)) => InflatedTo(p)

\* try_promote has just returned Some(RingFrameMut)
Promoted == rev.op = "try_promote" /\ rev.some

\* C35: a successful try_promote changes nothing in the ring: head, base,
\* the header of the frame and its elements are after the call what they
\* were before it, and the frame passed in is not reclaimed: no slot is
\* released and no element is dropped.
C35_PromoteKeepsRing == Promoted => (rev.kept /\ rev.dropped = {})

\* C36: DecodeError is absorbing. Once next() has returned DecodeError,
\* every later next() on that Framer returns DecodeError whatever buffers
\* are pushed afterwards, and no Frame is emitted any more.
C36_DecodeErrorAbsorbing ==
    ferr.seen =>
        /\ fres \in {ResDecodeError, ResNone}
        /\ Len(frames) = ferr.nframes

\* DecodeError is returned again on a ring whose first buffer alone was
\* fatal, after frames were emitted and more buffers were pushed behind it
C36_Witness ==
    /\ ferr.seen
    /\ fres = ResDecodeError
    /\ frames # <<>>
    /\ Len(ring) >= 2
    /\ FrameIter_next(<<ring[1]>>, WaitingForHeader).res = ResDecodeError

\* C37: for every sequence of non-empty buffers pushed and every
\* interleaving of next() calls the framer never panics: the accumulation
\* buffer is split only at a cursor inside it, so split_to reaches neither
\* of its panics and a frame and the remaining buffer are together the
\* buffer before the split, and after each split the first page of the
\* remaining buffer is non-empty or the buffer has no pages.
C37_FrameNeverPanics ==
    /\ fres # ResPanic
    /\ ring = <<>> \/ Len(ring[1]) > 0
    /\ fres = ResFrame =>
          Flatten(fcall.ring) = frames[Len(frames)].bytes \o Flatten(ring)

\* a frame whose data was waited for is split off inside the last of
\* several pages, which leaves the rest of that page as the first page
C37_Witness ==
    /\ fres = ResFrame
    /\ fcall.tag = "WaitingForTailingData"
    /\ Len(fcall.ring) >= 2
    /\ Len(ring) = 1
    /\ Len(ring[1]) < Len(fcall.ring[Len(fcall.ring)])

\* C38: RingFrame::into_iter yields every element of the frame exactly
\* once, in insertion order, then ends: when the iterator has returned None
\* no element of the frame is left that was not moved out.
C38_IntoIterYieldsAll ==
    ("ended" \in DOMAIN rev /\ rev.ended) => (rev.owed = {})

\* bytes_vectored went on to write dst[i] with i >= dst.len(): the index is
\* out of bounds and the call panics there
WroteBeyondDst == iov.called /\ iov.panic /\ iov.n >= Len(iov.dst)

\* C39: bytes_vectored never writes an entry at an index >= dst.len() and
\* never returns more than dst.len(), whatever the length of dst (1
\* included) and the number of non-empty buffers after the cursor.
C39_StaysInsideDst ==
    /\ ~WroteBeyondDst
    /\ iov.called => iov.n <= Len(iov.dst)

(***************************************************************************)
(* compress.rs : successive MbZlibOp::process calls on one inflating       *)
(* driver, as PacketInflater makes them.                                   *)
(***************************************************************************)
\* the input buffers given: none of a stream, the parts of a stream cut at
\* every kind of place, the end of a stream alone and followed by a byte
\* that is not of it, and a whole finished stream
DriverBuffers ==
    {<<>>, <<ZHeader>>, <<ZHeader, ZCount(2), 1>>, <<ZCount(1), 2>>, <<ZSync>>,
     <<ZEnd>>, <<ZEnd, 3>>, <<ZHeader, ZCount(1), 1, ZEnd>>}

\* the Multibytes given: up to MaxParts buffers
DriverInputs == UNION {[1..n -> DriverBuffers] : n \in 0..MaxParts}

NoProcessCall ==
    [called |-> FALSE, b |-> <<>>, slab |-> 0, was |-> NewInflate,
     res |-> ProcessResult("none", <<>>, NewInflate, 0, 0)]

\* MbZlibOp::inflate(allocator) : Inflate::new()
InitDriverVars ==
    /\ dinflate = NewInflate
    /\ dcall = NoProcessCall

\* self.process(b) with an allocator of slab-byte buffers
DriverProcess(b, slab) ==
    /\ ~dcall.called
    /\ LET r == MbZlibOp_process("inflate", dinflate, b, slab)
       IN  /\ dinflate' = r.z
           /\ dcall' = [called |-> TRUE, b |-> b, slab |-> slab, was |-> dinflate, res |-> r]
    /\ UNCHANGED nonDriverVars

\* the call has returned Ok or Err and the caller goes on
DriverReturn ==
    /\ dcall.called
    /\ dcall.res.ret # Hang
    /\ dcall' = NoProcessCall
    /\ UNCHANGED dinflate
    /\ UNCHANGED nonDriverVars

NextDriver ==
    \/ \E b \in DriverInputs, slab \in {1, MaxSlab} : DriverProcess(b, slab)
    \/ DriverReturn

\* C32: MbZlibOp::process terminates for every finite input Multibytes: it
\* returns Ok or Err after finitely many zlib calls, also when zlib reports
\* the end of the stream while input is left and when an input buffer is
\* empty.
C32_ProcessTerminates == dcall.called => dcall.res.ret # Hang

\* the call returned Ok(Multibytes) and the last zlib call it made ended
\* with avail_out == 0: the buffer pushed after the loop is a full one
ReturnedOnFullBuffer ==
    /\ dcall.called
    /\ dcall.res.ret = Z_OK
    /\ dcall.res.mb # <<>>
    /\ Len(dcall.res.mb[Len(dcall.res.mb)]) = dcall.slab
    /\ dcall.res.allocs = Len(dcall.res.mb)

\* C33: process never returns while zlib still holds output for input it
\* has consumed: after a zlib call that ends with avail_out == 0, zlib is
\* called again with a fresh output buffer before process returns, so no
\* return follows directly a call that filled the output buffer.
C33_NoReturnOnFullBuffer == ~ReturnedOnFullBuffer

(***************************************************************************)
(* Specifications.                                                         *)
(***************************************************************************)
\* every module as constructed; the output buffers of the zlib round trip
\* have any size
InitAnySlab ==
    /\ InitCursorVars /\ InitFramerVars /\ InitPoolVars /\ InitZlibVars
    /\ InitInflaterVars /\ InitRingVars /\ InitParseVars /\ InitGrowVars /\ InitPageVars /\ InitDriverVars

\* the same with the buffer size of the round trip pinned
Init == InitAnySlab /\ zslab = 1

SpecCursor == Init /\ [][NextCursor]_vars

SpecFramer == Init /\ [][NextFramer]_vars

SpecPool == Init /\ [][NextPool]_vars

InitGate ==
    /\ InitCursorVars /\ InitFramerVars /\ InitZlibVars /\ InitInflaterVars
    /\ InitRingVars /\ InitParseVars /\ InitGrowVars /\ InitPageVars /\ InitDriverVars /\ zslab = 1
    /\ \E limit \in Limits : NewPool(limit)

SpecGate == InitGate /\ [][NextGate]_vars

\* the gate with every thread that is inside allocate_global scheduled
\* again and again
SpecGateFair ==
    InitGate /\ [][NextGate]_vars /\ \A t \in GateThreads : WF_vars(AllocateStep(t))

SpecZlib == InitAnySlab /\ [][NextZlib]_vars

SpecInflater == Init /\ [][NextInflater]_vars

SpecRing == Init /\ [][NextRing]_vars

SpecVarint == Init /\ [][NextParse]_vars

SpecGrow == Init /\ [][NextGrow]_vars

SpecPage == Init /\ [][NextPage]_vars

SpecDriver == Init /\ [][NextDriver]_vars

Next ==
    \/ NextCursor \/ NextFramer \/ NextPool \/ NextZlib \/ NextInflater \/ NextRing
    \/ NextParse \/ NextGrow \/ NextPage \/ NextDriver

Spec == Init /\ [][Next]_vars

====
